---- MODULE Spec2Model ----
(***************************************************************************)
(* duo-toolbox: the priority mutex of src/extension/ui.js                  *)
(* (requestMutex / releaseMutex / updateMutex) on top of the shared global *)
(* variables of src/utils/internal.js, for one mutex code.                 *)
(*                                                                         *)
(* Every handler is one atomic action (JavaScript runs each task to        *)
(* completion).  Callbacks given to setTimeout without a delay are kept in *)
(* timerQueue, in the order of the setTimeout calls.  The host runs timers *)
(* of the same delay in that order, but it raises the delay of a timer set *)
(* from nested timer callbacks (4 ms past five levels, HTML timers), so a  *)
(* callback deferred later from another task may run first: any queued     *)
(* callback may be the next to run.  The timers armed with timeoutDelay    *)
(* are kept in a set (timeouts): one may expire before or after any other  *)
(* pending timer has run.                                                  *)
(*                                                                         *)
(* Mutex objects are JavaScript objects: they live in a heap, and the      *)
(* store holds a reference to one of them (or undefined).  A deferred      *)
(* supersession callback keeps a reference to the object it closed over.   *)
(*                                                                         *)
(* The second part is the event registry of src/duo/sounds.js              *)
(* (registerEventListener / registerDerivedEventListener / dispatchEvent), *)
(* over three event types: "raw", "parsed" derived from "raw", and         *)
(* "digest" derived from "parsed" through a chained base registration.     *)
(* The mutex and the registry share nothing but the store: each            *)
(* specification runs one of them and leaves the other as it starts.       *)
(*                                                                         *)
(* The last part is what is built on them and on the page: onUiLoaded,     *)
(* onDuoStateChanged, the sound detection listeners and the forced sound   *)
(* settings of src/duo/sounds.js, the overrides of src/utils/internal.js   *)
(* and onActionRequest of src/extension/ipc.js, each with a specification  *)
(* of its own.                                                             *)
(***************************************************************************)
EXTENDS Integers, Sequences, FiniteSets

VARIABLES
  counter,        \* shared counter '__counter::last_mutex_holder_id__'
  mutexes,        \* mutexes[mutexCode]: a heap reference, or Undefined
  heap,           \* the Mutex objects allocated so far
  timeouts,       \* uniqueIds of the requests whose timeout timer is armed
  timerQueue,     \* setTimeout(..) callbacks without delay, in the order of the calls
  promise,        \* promise[uniqueId]: state and value of the request's promise
  supersessions,  \* supersessions[uniqueId]: calls of its onSupersessionRequest
  releaseCalls,   \* releaseCalls[uniqueId]: calls of its release function
  arrivals,       \* arrivals[uniqueId]: requests of a strictly higher priority
                  \* that arrived while uniqueId was the current holder
  typeError       \* a deferred callback threw on a null currentHolder

vars == <<counter, mutexes, heap, timeouts, timerQueue, promise,
          supersessions, releaseCalls, arrivals, typeError>>

VARIABLES
  listeners,          \* event_listeners[event]: its listeners, in insertion order
  lastListenerId,     \* shared counter '__counter::last_event_listener_id__'
  unregisterFns,      \* the unregister functions returned to callers so far
  baseListenerCalls,  \* baseListenerCalls[<<base, derived>>]: calls of the
                      \* registerBaseListener of the pair
  lastCall            \* the last call made on the registry, and what it returned

eventVars == <<listeners, lastListenerId, unregisterFns, baseListenerCalls, lastCall>>

VARIABLES
  globalVariables,    \* window[KEY_GLOBAL_VARIABLES], seen through two keys that no other
                      \* part of the model uses
  lastStoreCall       \* the last call made on the shared variables, and what it returned

storeVars == <<globalVariables, lastStoreCall>>

VARIABLES
  uiVariables,        \* the shared global variables 'is_ui_loaded' and 'is_ui_loading_detected'
  uiRegistered,       \* the calls of onUiLoaded made so far; the n-th call passes callback n
  uiListeners,        \* the listeners of EVENT_TYPE_UI_LOADED, in insertion order
  uiDocumentReady,    \* document.readyState is 'interactive' or 'complete'
  uiDomListeners,     \* the detection callbacks added to 'DOMContentLoaded', not yet run
  uiDetections,       \* the detection callbacks given to setTimeout(.., 1), not yet run
  uiCssWaits,         \* the cssLoadedPromise.then(..) continuations, not yet run
  uiTimers,           \* the callbacks given to setTimeout(callback), not yet run
  uiCalls,            \* uiCalls[n]: the calls of callback n
  hasStorageEventListener,
                      \* iframe[KEY_HAS_STORAGE_EVENT_LISTENER]
  soundDetection,     \* the shared global variables 'sound_detection_listeners_version' and
                      \* 'sound_detection_unregistration_callbacks', and the sets of
                      \* detection listeners that are installed
  soundUnregisterFns, \* the functions onSoundInitialized and onSoundPlayback.. returned
  hostFunction,       \* host[name], for one host object and one function name
  overrideCalls,      \* the versions of the overrideFunction calls made so far
  hostProperty,       \* the descriptor of host[name] for one property name, and
                      \* host[overrideKey]
  descriptorCalls,    \* the versions of the overrideOwnPropertyDescriptor calls made so far
  sound,              \* one sound object: the keys of the 'rate' setting stored on it, and
                      \* the rate it plays at
  lastSetting,        \* the last call of setSoundSettingValue
  actionRequests      \* the action requests received: how far the handling of each one
                      \* is, its isResponseSent, and the responses sent for it

uiVars == <<uiVariables, uiRegistered, uiListeners, uiDocumentReady, uiDomListeners,
           uiDetections, uiCssWaits, uiTimers, uiCalls>>

\* The state of the parts of the page that are hooked or awaited.
soundVars == <<soundDetection, soundUnregisterFns>>

overrideVars == <<hostFunction, overrideCalls, hostProperty, descriptorCalls>>

settingVars == <<sound, lastSetting>>

hostVars == <<uiVars, hasStorageEventListener, soundVars, overrideVars, settingVars,
              actionRequests>>

allVars == <<vars, eventVars, storeVars, hostVars>>

\* Bounds of the model.
MaxRequests == 3
MaxReleaseCalls == 2
MaxPriority == 2

Priorities == 1..MaxPriority

\* PRIORITY_LOWEST
PRIORITY_LOWEST == 1

\* The priorities a caller may pass: requestMutex takes any number, also one below
\* PRIORITY_LOWEST.
AnyPriorities == (PRIORITY_LOWEST - 1)..MaxPriority

\* mutexes[mutexCode] before the first updateMutex, or after a callback returned nothing.
Undefined == 0

\* currentHolder: null
NoHolder == [uniqueId |-> 0, priority |-> 0]

InitialMutex == [currentHolder |-> NoHolder, pendingHolders |-> <<>>]

NoResult == [state |-> "pending", value |-> "none"]

MutexInit ==
  /\ counter = 0
  /\ mutexes = Undefined
  /\ heap = <<>>
  /\ timeouts = {}
  /\ timerQueue = <<>>
  /\ promise = <<>>
  /\ supersessions = <<>>
  /\ releaseCalls = <<>>
  /\ arrivals = <<>>
  /\ typeError = FALSE

----------------------------------------------------------------------------
(* Pure helpers *)

\* gt keeping the later of two equal values.
gte(x, y) == x >= y

gt(x, y) == x > y

\* extremumBy(values, it.priority, gt), scanning values[i..] with the value selected so far
\* (NoHolder: nothing selected yet, extremum is undefined).
RECURSIVE extremumByFrom(_, _, _)
extremumByFrom(values, i, selected) ==
  IF i > Len(values) THEN selected
  ELSE IF selected = NoHolder \/ gt(values[i].priority, selected.priority)
       THEN extremumByFrom(values, i + 1, values[i])
       ELSE extremumByFrom(values, i + 1, selected)

maxBy(values) == extremumByFrom(values, 1, NoHolder)

\* values.filter(uniqueId !== it.uniqueId)
filterOut(values, uniqueId) == SelectSeq(values, LAMBDA holder : holder.uniqueId # uniqueId)

\* The sequence s without its i-th element.
RemoveAt(s, i) == SubSeq(s, 1, i - 1) \o SubSeq(s, i + 1, Len(s))

\* bumpGlobalCounter no longer counting once the counter is set.
bumpGlobalCounterReuse(value) == IF value = 0 THEN 1 ELSE value

\* bumpGlobalCounter: updateSharedGlobalVariable(key, _ + 1, 0)
bumpGlobalCounter(value) == value + 1

----------------------------------------------------------------------------
(* updateMutex *)

\* The mutex object passed to the update callback, initialized if necessary.
EnsuredMutex == IF mutexes = Undefined THEN InitialMutex ELSE heap[mutexes]

\* The reference of that object.
EnsuredRef == IF mutexes = Undefined THEN Len(heap) + 1 ELSE mutexes

\* mutexes[mutexCode] = updateCallback(mutexes[mutexCode]), for a callback that returned
\* the object it was given ("same"), a new object ("copy") or nothing ("undefined").
updateMutex(result) ==
  CASE result.returned = "same" ->
         /\ mutexes' = EnsuredRef
         /\ heap' = IF mutexes = Undefined
                    THEN Append(heap, result.mutex)
                    ELSE [heap EXCEPT ![mutexes] = result.mutex]
    [] result.returned = "copy" ->
         /\ mutexes' = Len(heap) + 1
         /\ heap' = Append(heap, result.mutex)
    [] result.returned = "undefined" ->
         /\ mutexes' = Undefined
         /\ heap' = heap

----------------------------------------------------------------------------
(* The update callbacks.  Each gives what it returned ("same": the object it *)
(* was given, mutated in place; "copy": a new object; "undefined": nothing), *)
(* the resulting mutex object, and the callbacks it passed to setTimeout.    *)

onAcquiredTimer(holder) == [type |-> "onAcquired", holder |-> holder.uniqueId, mutex |-> 0]

\* () => mutex.currentHolder.onSupersessionRequest(), closing over the mutex object
onSupersessionTimer(ref) == [type |-> "onSupersessionRequest", holder |-> 0, mutex |-> ref]

\* requestCallback taking the mutex whether or not it is held.
requestCallbackSteal(mutex, ref, holder) ==
  [returned |-> "same",
   mutex |-> [mutex EXCEPT !.currentHolder = holder],
   timers |-> <<onAcquiredTimer(holder)>>]

\* requestCallback putting the requester at the front of the pending holders.
requestCallbackUnshift(mutex, ref, holder) ==
  IF mutex.currentHolder = NoHolder
  THEN [returned |-> "same",
        mutex |-> [mutex EXCEPT !.currentHolder = holder],
        timers |-> <<onAcquiredTimer(holder)>>]
  ELSE [returned |-> "same",
        mutex |-> [mutex EXCEPT !.pendingHolders = <<holder>> \o @],
        timers |-> IF holder.priority > mutex.currentHolder.priority
                   THEN <<onSupersessionTimer(ref)>>
                   ELSE <<>>]

\* requestMutex, the callback given to updateMutex
requestCallback(mutex, ref, holder) ==
  IF mutex.currentHolder = NoHolder
  THEN [returned |-> "same",
        mutex |-> [mutex EXCEPT !.currentHolder = holder],
        timers |-> <<onAcquiredTimer(holder)>>]
  ELSE [returned |-> "same",
        mutex |-> [mutex EXCEPT !.pendingHolders = Append(@, holder)],
        timers |-> IF holder.priority > mutex.currentHolder.priority
                   THEN <<onSupersessionTimer(ref)>>
                   ELSE <<>>]

\* releaseCallback leaving the promoted holder among the pending holders.
releaseCallbackKeepPending(mutex, holderId) ==
  IF mutex.currentHolder.uniqueId # holderId
  THEN [returned |-> "undefined", mutex |-> mutex, timers |-> <<>>]
  ELSE LET nextHolder == maxBy(mutex.pendingHolders)
       IN IF nextHolder # NoHolder
          THEN [returned |-> "same",
                mutex |-> [mutex EXCEPT !.currentHolder = nextHolder],
                timers |-> <<onAcquiredTimer(nextHolder)>>]
          ELSE [returned |-> "same",
                mutex |-> [mutex EXCEPT !.currentHolder = NoHolder],
                timers |-> <<>>]

\* releaseCallback leaving the releasing holder in place when nobody is pending.
releaseCallbackStayHeld(mutex, holderId) ==
  IF mutex.currentHolder.uniqueId # holderId
  THEN [returned |-> "undefined", mutex |-> mutex, timers |-> <<>>]
  ELSE LET nextHolder == maxBy(mutex.pendingHolders)
       IN IF nextHolder # NoHolder
          THEN [returned |-> "same",
                mutex |-> [currentHolder |-> nextHolder,
                           pendingHolders |-> filterOut(mutex.pendingHolders, nextHolder.uniqueId)],
                timers |-> <<onAcquiredTimer(nextHolder)>>]
          ELSE [returned |-> "same", mutex |-> mutex, timers |-> <<>>]

\* releaseCallback promoting the next holder without scheduling its onAcquired.
releaseCallbackNoNotice(mutex, holderId) ==
  IF mutex.currentHolder.uniqueId # holderId
  THEN [returned |-> "undefined", mutex |-> mutex, timers |-> <<>>]
  ELSE LET nextHolder == maxBy(mutex.pendingHolders)
       IN IF nextHolder # NoHolder
          THEN [returned |-> "same",
                mutex |-> [currentHolder |-> nextHolder,
                           pendingHolders |-> filterOut(mutex.pendingHolders, nextHolder.uniqueId)],
                timers |-> <<>>]
          ELSE [returned |-> "same",
                mutex |-> [mutex EXCEPT !.currentHolder = NoHolder],
                timers |-> <<>>]

\* releaseMutex, the callback given to updateMutex
releaseCallback(mutex, holderId) ==
  IF mutex.currentHolder.uniqueId # holderId
  THEN [returned |-> "undefined", mutex |-> mutex, timers |-> <<>>]
  ELSE LET nextHolder == maxBy(mutex.pendingHolders)
       IN IF nextHolder # NoHolder
          THEN [returned |-> "same",
                mutex |-> [currentHolder |-> nextHolder,
                           pendingHolders |-> filterOut(mutex.pendingHolders, nextHolder.uniqueId)],
                timers |-> <<onAcquiredTimer(nextHolder)>>]
          ELSE [returned |-> "same",
                mutex |-> [mutex EXCEPT !.currentHolder = NoHolder],
                timers |-> <<>>]

\* timeoutCallback leaving the pending holders as they are.
timeoutCallbackKeep(mutex, uniqueId) ==
  [returned |-> "copy", mutex |-> mutex, timers |-> <<>>]

\* timeoutCallback building the new object without the spread of the old one.
timeoutCallbackNoSpread(mutex, uniqueId) ==
  [returned |-> "copy",
   mutex |-> [currentHolder |-> NoHolder,
              pendingHolders |-> filterOut(mutex.pendingHolders, uniqueId)],
   timers |-> <<>>]

\* the timeout callback of requestMutex, the callback it gives to updateMutex
timeoutCallback(mutex, uniqueId) ==
  [returned |-> "copy",
   mutex |-> [mutex EXCEPT !.pendingHolders = filterOut(@, uniqueId)],
   timers |-> <<>>]

\* resolve(() => releaseMutex(mutexCode, uniqueId)): no effect on a settled promise
resolve(promises, uniqueId) ==
  IF promises[uniqueId].state = "pending"
  THEN [promises EXCEPT ![uniqueId] = [state |-> "resolved", value |-> "release"]]
  ELSE promises

\* reject(): no effect on a settled promise
reject(promises, uniqueId) ==
  IF promises[uniqueId].state = "pending"
  THEN [promises EXCEPT ![uniqueId] = [state |-> "rejected", value |-> "undefined"]]
  ELSE promises


----------------------------------------------------------------------------
(* The shared global variables *)

\* Bound of the model: the largest number a shared variable is given.
MaxValue == 3

Values == 0..MaxValue

\* The keys of two shared variables.
Keys == {"a", "b"}

\* What the model keeps for a key that window[KEY_GLOBAL_VARIABLES] does not have.
Absent == -1

NoVariables == [key \in Keys |-> Absent]

\* window[KEY_GLOBAL_VARIABLES] before the first call: not an object
StoreInit ==
  /\ globalVariables = [isObject |-> FALSE, entries |-> NoVariables]
  /\ lastStoreCall = [op |-> "none", key |-> "", callback |-> "", defaultValue |-> 0, value |-> 0]

\* if (!isObject(window[KEY_GLOBAL_VARIABLES])) { window[KEY_GLOBAL_VARIABLES] = {}; }
ensureGlobalVariables(window) ==
  IF ~window.isObject THEN [isObject |-> TRUE, entries |-> NoVariables] ELSE window

\* hasObjectProperty(window[KEY_GLOBAL_VARIABLES], key)
hasObjectProperty(window, key) == window.entries[key] # Absent

\* getSharedGlobalVariable(key, defaultValue): the window it leaves and what it returns
getSharedGlobalVariable(window, key, defaultValue) ==
  LET ensured == ensureGlobalVariables(window)
  IN [window |-> ensured,
      value |-> IF ~hasObjectProperty(ensured, key) THEN defaultValue ELSE ensured.entries[key]]

\* setSharedGlobalVariable(key, value): the window it leaves
setSharedGlobalVariable(window, key, value) ==
  [ensureGlobalVariables(window) EXCEPT !.entries[key] = value]

\* The callbacks given to updateSharedGlobalVariable: _ + 1 (bumpGlobalCounter) and
\* one that returns 0 whatever it is given.
UpdateCallbacks == {"increment", "zero"}

applyCallback(callback, value) == IF callback = "increment" THEN value + 1 ELSE 0

\* updateSharedGlobalVariable calling the callback on the default value.
updateSharedGlobalVariableFromDefault(window, key, callback, defaultValue) ==
  LET updatedValue == applyCallback(callback, defaultValue)
  IN [window |-> setSharedGlobalVariable(window, key, updatedValue), value |-> updatedValue]

\* updateSharedGlobalVariable(key, callback, defaultValue): the window it leaves and
\* what it returns
updateSharedGlobalVariable(window, key, callback, defaultValue) ==
  LET read == getSharedGlobalVariable(window, key, defaultValue)
      updatedValue == applyCallback(callback, read.value)
  IN [window |-> setSharedGlobalVariable(read.window, key, updatedValue),
      value |-> updatedValue]

----------------------------------------------------------------------------
(* The event registry *)

\* Bounds of the model.
MaxListenerIds == 2
MaxSubscriptions == 2
MaxNesting == 2

Events == {"raw", "parsed", "digest"}

\* The base event of each derived event. "parsed" is registered over "raw" with the
\* default registerBaseListener (registerEventListener); "digest" is registered over
\* "parsed" with a registerBaseListener that is itself a derived registration of
\* "parsed" over "raw".
BaseEvent == [parsed |-> "raw", digest |-> "parsed"]

DerivedEvents == DOMAIN BaseEvent

\* The events that are dispatched by a hook of the page, where callers register their
\* listeners with registerEventListener.
RootEvents == Events \ DerivedEvents

\* The events of onPracticeChallengesLoaded: "challenges"
\* (EVENT_TYPE_PRACTICE_CHALLENGES_LOADED) is derived both from "session"
\* (EVENT_TYPE_PRACTICE_SESSION_LOADED) and from "prefetched"
\* (EVENT_TYPE_PRE_FETCHED_SESSION_LOADED).
SessionEvents == {"session", "prefetched", "challenges"}

SessionBaseEvents == {"session", "prefetched"}

\* The events of onDuoStateChanged: "duoState" (EVENT_TYPE_DUO_STATE_CHANGED) is
\* derived from "storage" (EVENT_TYPE_STORAGE_ITEM_CHANGED).
StorageEvents == {"storage", "duoState"}

\* EVENT_TYPE_SOUND_INITIALIZED, EVENT_TYPE_SOUND_PLAYBACK_REQUESTED,
\* EVENT_TYPE_SOUND_PLAYBACK_CANCELLED, EVENT_TYPE_SOUND_PLAYBACK_CONFIRMED
SoundEvents == {"soundInitialized", "soundPlaybackRequested", "soundPlaybackCancelled",
                "soundPlaybackConfirmed"}

AllEvents == Events \cup SessionEvents \cup StorageEvents \cup SoundEvents

\* The (base event, derived event) pairs of the model.
Pairs == {<<BaseEvent[d], d>> : d \in DerivedEvents}
           \cup {<<baseEvent, "challenges">> : baseEvent \in SessionBaseEvents}
           \cup {<<"storage", "duoState">>}

\* The callbacks of the callers: "f" returns its name, "bad" throws.
CallerCallbacks == {"f", "bad"}

Callback(name) == [kind |-> "caller", name |-> name, derivedEvent |-> ""]

\* (...payload) => { derivedPayload = mapPayload(...payload); isArray(derivedPayload) && dispatchEvent(derivedEvent, ...derivedPayload) }
HiddenCallback(derivedEvent) == [kind |-> "hidden", name |-> "", derivedEvent |-> derivedEvent]

\* getUniqueEventListenerId(): `__listener::${n}__`
GeneratedId(n) == [kind |-> "generated", n |-> n, baseEvent |-> "", derivedEvent |-> ""]

\* A listener ID chosen by the caller.
GivenId == [kind |-> "given", n |-> 0, baseEvent |-> "", derivedEvent |-> ""]

\* `__${baseEvent}::${derivedEvent}__`
BaseListenerId(baseEvent, derivedEvent) ==
  [kind |-> "hidden", n |-> 0, baseEvent |-> baseEvent, derivedEvent |-> derivedEvent]

\* A payload is the value 7 wrapped in n arrays: 0 is 7, 1 is [7], 2 is [[7]].
Payloads == 0..MaxNesting

\* The payload of a loaded session is an object, written SessionData; the array that
\* holds one object is written SessionData - 1.
SessionData == -1

\* What the 'storage' listener of the iframe dispatches: { key, oldValue, newValue },
\* for the key 'duo.state' and for any other key.
DuoStateItemChange == -3
OtherItemChange == -4

StorageKeys == {"duo.state", "other"}

StorageItemChange(key) == IF key = "duo.state" THEN DuoStateItemChange ELSE OtherItemChange

\* { oldState, newState }
DuoStates == -5

isArray(payload) == payload > 0 \/ payload = SessionData - 1

\* ('object' === typeof _1) && !!_1 && !isArray(_1)
isObject(payload) ==
  payload \in {SessionData, DuoStateItemChange, OtherItemChange, DuoStates}

\* mapPayload: the identity
mapPayload(payload) == payload

\* getSessionChallenges: [ { challenges, sessionMetaData } ] for session data that is
\* an object, undefined (here 0, which is no array) for anything else
getSessionChallenges(sessionData) == IF isObject(sessionData) THEN SessionData - 1 ELSE 0

\* ({ key, oldValue: oldState = null, newValue: newState = null }) =>
\*   (key === 'duo.state') && ({ oldState, newState })
\* false is written 0, which is no array.
mapDuoState(payload) == IF payload = DuoStateItemChange THEN DuoStates ELSE 0

\* The mapPayload the listeners of a derived event are registered with.
mapPayloadOf(derivedEvent, payload) ==
  CASE derivedEvent = "challenges" -> getSessionChallenges(payload)
    [] derivedEvent = "duoState" -> mapDuoState(payload)
    [] OTHER -> mapPayload(payload)

\* ...derivedPayload: the one element of the array
spread(payload) == IF payload > 0 THEN payload - 1 ELSE payload + 1

NoCall ==
  [op |-> "none", event |-> "", baseEvent |-> "", id |-> GivenId, callback |-> Callback(""),
   payload |-> 0, isNull |-> TRUE, values |-> <<>>, log |-> <<>>, uncaught |-> FALSE]

EventsInit ==
  /\ listeners = [event \in AllEvents |-> <<>>]
  /\ lastListenerId = 0
  /\ unregisterFns = {}
  /\ baseListenerCalls = [pair \in Pairs |-> 0]
  /\ lastCall = NoCall

----------------------------------------------------------------------------
(* onUiLoaded *)

MaxUiCallbacks == 5

UiCallbacks == 1..MaxUiCallbacks

UiInit ==
  /\ uiVariables = [isUiLoaded |-> FALSE, isUiLoadingDetected |-> FALSE]
  /\ uiRegistered = 0
  /\ uiListeners = <<>>
  /\ uiDocumentReady = FALSE
  /\ uiDomListeners = 0
  /\ uiDetections = 0
  /\ uiCssWaits = 0
  /\ uiTimers = {}
  /\ uiCalls = [n \in UiCallbacks |-> 0]

\* The calls of onDuoStateChanged that are made.
MaxStateListeners == 3

StorageInit == hasStorageEventListener = FALSE

----------------------------------------------------------------------------
(* The sound detection listeners *)

MaxSoundListeners == 3

\* SOUND_DETECTION_LISTENERS_VERSION
SOUND_DETECTION_LISTENERS_VERSION == 4

\* The builds of the toolbox that scripts of the page were bundled with: this one and
\* the one before it, which differs by the version of its detection listeners.
Builds == {SOUND_DETECTION_LISTENERS_VERSION - 1, SOUND_DETECTION_LISTENERS_VERSION}

\* null, for 'sound_detection_unregistration_callbacks'
NoSet == 0

\* version and callbacks are the two shared variables: a version that is null or not
\* set is written 0, which is what Number(..) || 0 makes of it, and callbacks is the set
\* of listeners whose unregistration callbacks the array holds. installed holds the
\* sets whose listeners are registered, and installs counts the sets installed so far.
SoundInit ==
  /\ soundDetection = [version |-> 0, callbacks |-> NoSet, installed |-> {}, installs |-> 0]
  /\ soundUnregisterFns = {}

----------------------------------------------------------------------------
(* overrideFunction and overrideOwnPropertyDescriptor *)

MaxOverrideCalls == 3
MaxOverrideVersion == 3

\* The versions callers pass: positive numbers, 1 being the default.
OverrideVersions == 1..MaxOverrideVersion

\* A function is written as the function of the page it ends up calling ("original",
\* or "noop" when the host had none) and the overrides applied on top of it, the
\* outermost first: the override of the n-th call is written n.
Noop == [base |-> "noop", overrides |-> <<>>]

OriginalFunction == [base |-> "original", overrides |-> <<>>]

\* host[name] when the host has no such function
NoFunction ==
  [defined |-> FALSE, fn |-> Noop, hasOriginal |-> FALSE, original |-> Noop, version |-> 0]

\* host[name] as the page defined it: no KEY_ORIGINAL_FUNCTION, no KEY_OVERRIDE_VERSION
PageFunction ==
  [defined |-> TRUE, fn |-> OriginalFunction, hasOriginal |-> FALSE, original |-> Noop,
   version |-> 0]

\* The descriptor of the property as the page defined it, written like a function;
\* host[overrideKey] is not set.
PageProperty == [descriptor |-> OriginalFunction, overrideVersion |-> 0]

OverrideInit ==
  /\ hostFunction = NoFunction
  /\ overrideCalls = <<>>
  /\ hostProperty = PageProperty
  /\ descriptorCalls = <<>>

----------------------------------------------------------------------------
(* setSoundSettingValue *)

MaxSettingValue == 9
MaxSettingPriority == 2

\* The values of the 'rate' setting are written in halves: minValue 0.5 is 1, maxValue
\* 4.0 is 8, defaultValue 1.0 is 2.
RateUnit == 2
RateMinValue == 1
RateMaxValue == 8
RateDefaultValue == 2

SettingValues == 0..MaxSettingValue

\* The priorities callers pass, 1 being the default.
SettingPriorities == 0..MaxSettingPriority

\* A sound that no script touched: none of the keys of the setting is set (Absent),
\* and it plays at the default rate.
NewSound ==
  [value |-> Absent, priority |-> Absent, isRelative |-> FALSE,
   originalValue |-> Absent, rate |-> RateDefaultValue]

NoSetting == [op |-> "none", value |-> 0, priority |-> 0, isRelative |-> FALSE]

SettingInit ==
  /\ sound = NewSound
  /\ lastSetting = NoSetting

----------------------------------------------------------------------------
(* onActionRequest *)

MaxActionRequests == 2

\* The calls of sendResult and sendError the callback makes for one request.
MaxCallbackResponses == 2

\* ACTION_RESULT_SUCCESS, ACTION_RESULT_FAILURE
ResultTypes == {"success", "failure"}

IpcInit == actionRequests = <<>>

HostInit == UiInit /\ StorageInit /\ SoundInit /\ OverrideInit /\ SettingInit /\ IpcInit

Init == MutexInit /\ EventsInit /\ StoreInit /\ HostInit

\* The registry the functions below work on: the listeners, and the count of the calls
\* of registerBaseListener.
Registry == [listeners |-> listeners, calls |-> baseListenerCalls]

\* hasEventListeners(event)
hasEventListeners(registry, event) == registry.listeners[event] # <<>>

\* hasEventListener(event, listenerId)
hasEventListener(registry, event, listenerId) ==
  \E i \in 1..Len(registry.listeners[event]) : registry.listeners[event][i].id = listenerId

\* listeners[listenerId] = callback, adding a second entry for a key that exists.
setListenerPush(list, listenerId, callback) ==
  Append(list, [id |-> listenerId, callback |-> callback])

\* listeners[listenerId] = callback: a new key comes last, a key that exists keeps its place
setListener(list, listenerId, callback) ==
  IF \E i \in 1..Len(list) : list[i].id = listenerId
  THEN [i \in 1..Len(list) |->
          IF list[i].id = listenerId THEN [id |-> listenerId, callback |-> callback] ELSE list[i]]
  ELSE Append(list, [id |-> listenerId, callback |-> callback])

\* delete listeners[listenerId]
deleteListener(list, listenerId) == SelectSeq(list, LAMBDA entry : entry.id # listenerId)

\* registerEventListener(event, callback, listenerId), but for the function it returns
registerEventListener(registry, event, callback, listenerId) ==
  [registry EXCEPT !.listeners[event] = setListener(@, listenerId, callback)]

\* unregisterEventListener(event, listenerId)
unregisterEventListener(registry, event, listenerId) ==
  [registry EXCEPT !.listeners[event] = deleteListener(@, listenerId)]

\* registerDerivedEventListener installing the listener of the base event the first
\* time only, instead of whenever the base event does not hold it.
RECURSIVE registerDerivedEventListenerOnce(_, _, _, _, _)
registerDerivedEventListenerOnce(registry, derivedEvent, baseEvent, derivedCallback, derivedListenerId) ==
  LET baseListenerId == BaseListenerId(baseEvent, derivedEvent)
      called == [registry EXCEPT !.calls[<<baseEvent, derivedEvent>>] = @ + 1]
      withBase ==
        IF registry.calls[<<baseEvent, derivedEvent>>] = 0
        THEN IF baseEvent \in DerivedEvents
             THEN registerDerivedEventListenerOnce(called, baseEvent, BaseEvent[baseEvent],
                                                   HiddenCallback(derivedEvent), baseListenerId)
             ELSE registerEventListener(called, baseEvent,
                                        HiddenCallback(derivedEvent), baseListenerId)
        ELSE registry
  IN registerEventListener(withBase, derivedEvent, derivedCallback, derivedListenerId)

\* registerDerivedEventListener(derivedEvent, baseEvent, derivedCallback, mapPayload,
\* registerBaseListener, derivedListenerId), but for the function it returns.
\* registerBaseListener is registerEventListener for a base event that is not derived,
\* and a derived registration of the base event otherwise; what it returns is dropped.
RECURSIVE registerDerivedEventListener(_, _, _, _, _)
registerDerivedEventListener(registry, derivedEvent, baseEvent, derivedCallback, derivedListenerId) ==
  LET baseListenerId == BaseListenerId(baseEvent, derivedEvent)
      called == [registry EXCEPT !.calls[<<baseEvent, derivedEvent>>] = @ + 1]
      withBase ==
        IF ~hasEventListener(registry, baseEvent, baseListenerId)
        THEN IF baseEvent \in DerivedEvents
             THEN registerDerivedEventListener(called, baseEvent, BaseEvent[baseEvent],
                                               HiddenCallback(derivedEvent), baseListenerId)
             ELSE registerEventListener(called, baseEvent,
                                        HiddenCallback(derivedEvent), baseListenerId)
        ELSE registry
  IN registerEventListener(withBase, derivedEvent, derivedCallback, derivedListenerId)

\* unregisterDerived leaving the listener of the base event in place.
unregisterDerivedKeepBase(registry, derivedEvent, baseEvent, derivedListenerId) ==
  unregisterEventListener(registry, derivedEvent, derivedListenerId)

\* The function registerDerivedEventListener returns.
unregisterDerived(registry, derivedEvent, baseEvent, derivedListenerId) ==
  LET unregistered == unregisterEventListener(registry, derivedEvent, derivedListenerId)
  IN IF ~hasEventListeners(unregistered, derivedEvent)
     THEN unregisterEventListener(unregistered, baseEvent,
                                  BaseListenerId(baseEvent, derivedEvent))
     ELSE unregistered

----------------------------------------------------------------------------
(* Actions *)

\* RequestMutex calling onAcquired() at once on a free mutex, instead of deferring it.
RequestMutexSync(priority, hasTimeout) ==
  /\ counter < MaxRequests
  /\ LET uniqueId == bumpGlobalCounter(counter)
         holder == [uniqueId |-> uniqueId, priority |-> priority]
         current == EnsuredMutex.currentHolder
         result == requestCallback(EnsuredMutex, EnsuredRef, holder)
     IN /\ counter' = uniqueId
        /\ timeouts' = IF hasTimeout /\ current # NoHolder
                       THEN timeouts \cup {uniqueId}
                       ELSE timeouts
        /\ updateMutex(result)
        /\ timerQueue' = IF current = NoHolder THEN timerQueue ELSE timerQueue \o result.timers
        /\ promise' = IF current = NoHolder
                      THEN resolve(Append(promise, NoResult), uniqueId)
                      ELSE Append(promise, NoResult)
        /\ supersessions' = Append(supersessions, 0)
        /\ releaseCalls' = Append(releaseCalls, 0)
        /\ arrivals' = IF current # NoHolder /\ priority > current.priority
                       THEN [Append(arrivals, 0) EXCEPT ![current.uniqueId] = @ + 1]
                       ELSE Append(arrivals, 0)
  /\ UNCHANGED <<typeError, eventVars, storeVars, hostVars>>

\* requestMutex(mutexCode, { priority, timeoutDelay }), hasTimeout: timeoutDelay > 0
RequestMutex(priority, hasTimeout) ==
  /\ counter < MaxRequests
  /\ LET uniqueId == bumpGlobalCounter(counter)
         holder == [uniqueId |-> uniqueId, priority |-> priority]
         current == EnsuredMutex.currentHolder
         result == requestCallback(EnsuredMutex, EnsuredRef, holder)
     IN /\ counter' = uniqueId
        /\ timeouts' = IF hasTimeout THEN timeouts \cup {uniqueId} ELSE timeouts
        /\ updateMutex(result)
        /\ timerQueue' = timerQueue \o result.timers
        /\ promise' = Append(promise, NoResult)
        /\ supersessions' = Append(supersessions, 0)
        /\ releaseCalls' = Append(releaseCalls, 0)
        /\ arrivals' = IF current # NoHolder /\ priority > current.priority
                       THEN [Append(arrivals, 0) EXCEPT ![current.uniqueId] = @ + 1]
                       ELSE Append(arrivals, 0)
  /\ UNCHANGED <<typeError, eventVars, storeVars, hostVars>>

\* The release function of a resolved promise is called: releaseMutex(mutexCode, holderId)
Release(holderId) ==
  /\ promise[holderId].state = "resolved"
  /\ releaseCalls[holderId] < MaxReleaseCalls
  /\ LET result == releaseCallback(EnsuredMutex, holderId)
     IN /\ updateMutex(result)
        /\ timerQueue' = timerQueue \o result.timers
  /\ releaseCalls' = [releaseCalls EXCEPT ![holderId] = @ + 1]
  /\ UNCHANGED <<counter, timeouts, promise, supersessions, arrivals, typeError, eventVars, storeVars, hostVars>>

\* The timer armed with timeoutDelay expires.
Timeout(uniqueId) ==
  /\ uniqueId \in timeouts
  /\ timeouts' = timeouts \ {uniqueId}
  /\ updateMutex(timeoutCallback(EnsuredMutex, uniqueId))
  /\ promise' = reject(promise, uniqueId)
  /\ UNCHANGED <<counter, timerQueue, supersessions, releaseCalls, arrivals, typeError, eventVars, storeVars, hostVars>>

\* The deferred callback timerQueue[i], () => onAcquired(), runs.
RunOnAcquired(i) ==
  /\ timerQueue[i].type = "onAcquired"
  /\ LET uniqueId == timerQueue[i].holder
     IN /\ timeouts' = timeouts \ {uniqueId}
        /\ promise' = resolve(promise, uniqueId)
  /\ timerQueue' = RemoveAt(timerQueue, i)
  /\ UNCHANGED <<counter, mutexes, heap, supersessions, releaseCalls, arrivals, typeError,
               eventVars, storeVars, hostVars>>

\* The deferred callback timerQueue[i], () => mutex.currentHolder.onSupersessionRequest(),
\* runs: it throws a TypeError when currentHolder is null.
RunOnSupersessionRequest(i) ==
  /\ timerQueue[i].type = "onSupersessionRequest"
  /\ LET current == heap[timerQueue[i].mutex].currentHolder
     IN IF current = NoHolder
        THEN typeError' = TRUE /\ UNCHANGED supersessions
        ELSE /\ supersessions' = [supersessions EXCEPT ![current.uniqueId] = @ + 1]
             /\ UNCHANGED typeError
  /\ timerQueue' = RemoveAt(timerQueue, i)
  /\ UNCHANGED <<counter, mutexes, heap, timeouts, promise, releaseCalls, arrivals, eventVars, storeVars, hostVars>>

Next ==
  \/ \E priority \in Priorities, hasTimeout \in BOOLEAN : RequestMutex(priority, hasTimeout)
  \/ \E holderId \in 1..counter : Release(holderId)
  \/ \E uniqueId \in timeouts : Timeout(uniqueId)
  \/ \E i \in 1..Len(timerQueue) : RunOnAcquired(i)
  \/ \E i \in 1..Len(timerQueue) : RunOnSupersessionRequest(i)

Spec == Init /\ [][Next]_allVars

\* The same operations, with callers that also pass priorities out of range.
NextAnyPriority ==
  \/ \E priority \in AnyPriorities, hasTimeout \in BOOLEAN : RequestMutex(priority, hasTimeout)
  \/ \E holderId \in 1..counter : Release(holderId)
  \/ \E uniqueId \in timeouts : Timeout(uniqueId)
  \/ \E i \in 1..Len(timerQueue) : RunOnAcquired(i)
  \/ \E i \in 1..Len(timerQueue) : RunOnSupersessionRequest(i)

SpecAnyPriority == Init /\ [][NextAnyPriority]_allVars

\* A finite workload of well-behaved callers: no request has a timeout, and every
\* holder calls its release function once, after its promise has resolved.
ReleaseOnce(holderId) ==
  /\ releaseCalls[holderId] = 0
  /\ Release(holderId)

NextWellBehaved ==
  \/ \E priority \in Priorities : RequestMutex(priority, FALSE)
  \/ \E holderId \in 1..counter : ReleaseOnce(holderId)
  \/ \E i \in 1..Len(timerQueue) : RunOnAcquired(i)
  \/ \E i \in 1..Len(timerQueue) : RunOnSupersessionRequest(i)

\* The host runs every callback given to setTimeout, and every holder releases.
SpecWellBehaved ==
  /\ Init
  /\ [][NextWellBehaved]_allVars
  /\ WF_allVars(\E i \in 1..Len(timerQueue) : RunOnAcquired(i))
  /\ WF_allVars(\E i \in 1..Len(timerQueue) : RunOnSupersessionRequest(i))
  /\ WF_allVars(\E holderId \in 1..counter : ReleaseOnce(holderId))

----------------------------------------------------------------------------
(* The calls made on the event registry *)

\* The callbacks of callers that change the registry while they run: "drop" calls
\* the unregister function of the listener registered under the caller's ID for
\* "raw", "add" registers "f" under that ID for "raw".
ReentrantCallbacks == {"drop", "add"}

\* What a callback of a caller does to the registry when it is called.
runCallback(registry, name) ==
  CASE name = "drop" -> unregisterEventListener(registry, "raw", GivenId)
    [] name = "add" -> registerEventListener(registry, "raw", Callback("f"), GivenId)
    [] OTHER -> registry

RECURSIVE dispatchEvent(_, _, _)

\* The hidden listener dispatching the derived event whatever mapPayload returns.
callListenerAlways(registry, event, entry, payload) ==
  LET invoked == <<[event |-> event, id |-> entry.id, payload |-> payload]>>
  IN IF entry.callback.kind = "caller"
     THEN [threw |-> entry.callback.name = "bad", value |-> entry.callback.name,
           log |-> invoked, registry |-> runCallback(registry, entry.callback.name)]
     ELSE LET derived == dispatchEvent(registry, entry.callback.derivedEvent,
                                       spread(mapPayloadOf(entry.callback.derivedEvent, payload)))
          IN [threw |-> derived.uncaught, value |-> "undefined",
              log |-> invoked \o derived.log, registry |-> derived.registry]

\* listener(...payload): what the call returns or whether it throws, the calls of
\* listeners it makes, and the registry it leaves. The hidden listener of a derived
\* event maps the payload and dispatches the derived event when the result is an
\* array; it returns nothing.
callListener(registry, event, entry, payload) ==
  LET invoked == <<[event |-> event, id |-> entry.id, payload |-> payload]>>
  IN IF entry.callback.kind = "caller"
     THEN [threw |-> entry.callback.name = "bad", value |-> entry.callback.name,
           log |-> invoked, registry |-> runCallback(registry, entry.callback.name)]
     ELSE LET derivedPayload == mapPayloadOf(entry.callback.derivedEvent, payload)
          IN IF isArray(derivedPayload)
             THEN LET derived == dispatchEvent(registry, entry.callback.derivedEvent,
                                               spread(derivedPayload))
                  IN [threw |-> derived.uncaught, value |-> "undefined",
                      log |-> invoked \o derived.log, registry |-> derived.registry]
             ELSE [threw |-> FALSE, value |-> "undefined", log |-> invoked,
                   registry |-> registry]

\* listeners.flatMap(listener => [ listener(...payload) ]), without the try / catch.
RECURSIVE flatMapListenersNoCatch(_, _, _, _, _)
flatMapListenersNoCatch(registry, event, list, i, payload) ==
  IF i > Len(list)
  THEN [values |-> <<>>, log |-> <<>>, uncaught |-> FALSE, registry |-> registry]
  ELSE LET called == callListener(registry, event, list[i], payload)
           rest == flatMapListenersNoCatch(called.registry, event, list, i + 1, payload)
       IN IF called.threw
          THEN [values |-> <<>>, log |-> called.log, uncaught |-> TRUE,
                registry |-> called.registry]
          ELSE [values |-> <<called.value>> \o rest.values,
                log |-> called.log \o rest.log,
                uncaught |-> rest.uncaught,
                registry |-> rest.registry]

\* The flatMap reading the listeners of the event again before each call, and
\* skipping a listener that is not registered any more.
RECURSIVE flatMapListenersLive(_, _, _, _, _)
flatMapListenersLive(registry, event, list, i, payload) ==
  IF i > Len(list)
  THEN [values |-> <<>>, log |-> <<>>, uncaught |-> FALSE, registry |-> registry]
  ELSE IF ~hasEventListener(registry, event, list[i].id)
       THEN flatMapListenersLive(registry, event, list, i + 1, payload)
       ELSE LET called == callListener(registry, event, list[i], payload)
                rest == flatMapListenersLive(called.registry, event, list, i + 1, payload)
            IN [values |-> (IF called.threw THEN <<>> ELSE <<called.value>>) \o rest.values,
                log |-> called.log \o rest.log,
                uncaught |-> rest.uncaught,
                registry |-> rest.registry]

\* listeners.flatMap(listener => { try { return [ listener(...payload) ]; } catch (error) { return []; } })
\* from the i-th listener on, list being Object.values(listeners) as it was when
\* dispatchEvent was called
RECURSIVE flatMapListeners(_, _, _, _, _)
flatMapListeners(registry, event, list, i, payload) ==
  IF i > Len(list)
  THEN [values |-> <<>>, log |-> <<>>, uncaught |-> FALSE, registry |-> registry]
  ELSE LET called == callListener(registry, event, list[i], payload)
           rest == flatMapListeners(called.registry, event, list, i + 1, payload)
       IN [values |-> (IF called.threw THEN <<>> ELSE <<called.value>>) \o rest.values,
           log |-> called.log \o rest.log,
           uncaught |-> rest.uncaught,
           registry |-> rest.registry]

\* dispatchEvent returning an empty list for an event that has no listeners.
dispatchEventNoSentinel(registry, event, payload) ==
  LET called == flatMapListeners(registry, event, registry.listeners[event], 1, payload)
  IN [isNull |-> FALSE, values |-> called.values, log |-> called.log,
      uncaught |-> called.uncaught, registry |-> called.registry]

\* dispatchEvent(event, ...payload), withEventListeners included: null for an event
\* that has no listeners, the results of the listeners otherwise
dispatchEvent(registry, event, payload) ==
  IF ~hasEventListeners(registry, event)
  THEN [isNull |-> TRUE, values |-> <<>>, log |-> <<>>, uncaught |-> FALSE,
        registry |-> registry]
  ELSE LET called == flatMapListeners(registry, event, registry.listeners[event], 1, payload)
       IN [isNull |-> FALSE, values |-> called.values, log |-> called.log,
           uncaught |-> called.uncaught, registry |-> called.registry]

\* The function registerEventListener returns, with the callback of the registration
\* it was returned for.
PlainUnregisterFn(event, listenerId, callback) ==
  [kind |-> "plain", event |-> event, baseEvent |-> "", id |-> listenerId,
   callback |-> callback]

\* The function registerDerivedEventListener returns.
DerivedUnregisterFn(derivedEvent, baseEvent, derivedListenerId) ==
  [kind |-> "derived", event |-> derivedEvent, baseEvent |-> baseEvent,
   id |-> derivedListenerId]

\* The function onPracticeChallengesLoaded returns: it calls the functions returned by
\* its two derived registrations, made under derivedListenerId and the ID generated
\* next.
ChallengesUnregisterFn(derivedListenerId) ==
  [kind |-> "challenges", event |-> "challenges", baseEvent |-> "",
   id |-> derivedListenerId]

\* A caller registers a listener under an ID of its own.
RegisterEventListenerAs(event, name) ==
  LET registered == registerEventListener(Registry, event, Callback(name), GivenId)
  IN /\ listeners' = registered.listeners
     /\ baseListenerCalls' = registered.calls
     /\ unregisterFns' = unregisterFns \cup {PlainUnregisterFn(event, GivenId, Callback(name))}
     /\ lastCall' = [NoCall EXCEPT !.op = "registerEventListener", !.event = event,
                                   !.id = GivenId, !.callback = Callback(name)]
     /\ UNCHANGED <<lastListenerId, vars, storeVars, hostVars>>

\* A caller registers a listener, the ID being generated.
RegisterEventListener(event, name) ==
  /\ lastListenerId < MaxListenerIds
  /\ LET listenerId == GeneratedId(bumpGlobalCounter(lastListenerId))
         registered == registerEventListener(Registry, event, Callback(name), listenerId)
     IN /\ lastListenerId' = bumpGlobalCounter(lastListenerId)
        /\ listeners' = registered.listeners
        /\ baseListenerCalls' = registered.calls
        /\ unregisterFns' = unregisterFns \cup {PlainUnregisterFn(event, listenerId, Callback(name))}
        /\ lastCall' = [NoCall EXCEPT !.op = "registerEventListener", !.event = event,
                                      !.id = listenerId, !.callback = Callback(name)]
  /\ UNCHANGED <<vars, storeVars, hostVars>>

\* A caller registers a listener for a derived event.
RegisterDerivedEventListener(derivedEvent, name) ==
  /\ lastListenerId < MaxListenerIds
  /\ LET listenerId == GeneratedId(bumpGlobalCounter(lastListenerId))
         registered == registerDerivedEventListener(Registry, derivedEvent, BaseEvent[derivedEvent],
                                                    Callback(name), listenerId)
     IN /\ lastListenerId' = bumpGlobalCounter(lastListenerId)
        /\ listeners' = registered.listeners
        /\ baseListenerCalls' = registered.calls
        /\ unregisterFns' =
             unregisterFns \cup {DerivedUnregisterFn(derivedEvent, BaseEvent[derivedEvent],
                                                     listenerId)}
        /\ lastCall' = [NoCall EXCEPT !.op = "registerDerivedEventListener",
                                      !.event = derivedEvent,
                                      !.baseEvent = BaseEvent[derivedEvent],
                                      !.id = listenerId, !.callback = Callback(name)]
  /\ UNCHANGED <<vars, storeVars, hostVars>>

\* A caller calls one of the unregister functions it was given.
Unregister(fn) ==
  LET unregistered ==
        CASE fn.kind = "derived" ->
               unregisterDerived(Registry, fn.event, fn.baseEvent, fn.id)
          [] fn.kind = "challenges" ->
               unregisterDerived(unregisterDerived(Registry, "challenges", "session", fn.id),
                                 "challenges", "prefetched", GeneratedId(fn.id.n + 1))
          [] OTHER -> unregisterEventListener(Registry, fn.event, fn.id)
  IN /\ listeners' = unregistered.listeners
     /\ baseListenerCalls' = unregistered.calls
     /\ lastCall' = [NoCall EXCEPT !.op = "unregister", !.event = fn.event,
                                   !.baseEvent = fn.baseEvent, !.id = fn.id,
                                   !.callback = IF fn.kind = "plain" THEN fn.callback
                                                ELSE NoCall.callback]
     /\ UNCHANGED <<lastListenerId, unregisterFns, vars, storeVars, hostVars>>

\* An event is dispatched.
DispatchEvent(event, payload) ==
  LET result == dispatchEvent(Registry, event, payload)
  IN /\ lastCall' = [NoCall EXCEPT !.op = "dispatchEvent", !.event = event,
                                   !.payload = payload, !.isNull = result.isNull,
                                   !.values = result.values, !.log = result.log,
                                   !.uncaught = result.uncaught]
     /\ listeners' = result.registry.listeners
     /\ baseListenerCalls' = result.registry.calls
     /\ UNCHANGED <<lastListenerId, unregisterFns, vars, storeVars, hostVars>>

EventsNext ==
  \/ \E event \in RootEvents, name \in CallerCallbacks : RegisterEventListenerAs(event, name)
  \/ \E event \in RootEvents, name \in CallerCallbacks : RegisterEventListener(event, name)
  \/ \E derivedEvent \in DerivedEvents, name \in CallerCallbacks :
       RegisterDerivedEventListener(derivedEvent, name)
  \/ \E fn \in unregisterFns : Unregister(fn)
  \/ \E event \in Events, payload \in Payloads : DispatchEvent(event, payload)

SpecEvents == Init /\ [][EventsNext]_allVars

\* The registry used for one pair only: callers register listeners of "parsed",
\* derived from "raw", and call the functions they were given; either event is
\* dispatched.
PairNext ==
  \/ \E name \in CallerCallbacks : RegisterDerivedEventListener("parsed", name)
  \/ \E fn \in unregisterFns : Unregister(fn)
  \/ \E event \in {"raw", "parsed"}, payload \in Payloads : DispatchEvent(event, payload)

SpecPair == Init /\ [][PairNext]_allVars

\* listeners.forEach(it(responseData, ...)) from the i-th listener on: the first
\* listener that throws ends the loop.
RECURSIVE forEachListener(_, _, _, _, _)
forEachListener(registry, event, list, i, payload) ==
  IF i > Len(list)
  THEN [log |-> <<>>, registry |-> registry]
  ELSE LET called == callListener(registry, event, list[i], payload)
           rest == forEachListener(called.registry, event, list, i + 1, payload)
       IN IF called.threw
          THEN [log |-> called.log, registry |-> called.registry]
          ELSE [log |-> called.log \o rest.log, registry |-> rest.registry]

\* What the hooks of registerHttpRequestEventListener and of
\* registerPreFetchedSessionLoadListener do when a session is loaded:
\* withEventListeners(event, listeners => { try { listeners.forEach(...) } catch { } })
callHookListeners(registry, event, payload) ==
  IF ~hasEventListeners(registry, event)
  THEN [log |-> <<>>, registry |-> registry]
  ELSE forEachListener(registry, event, registry.listeners[event], 1, payload)

\* onPracticeChallengesLoaded(callback)
OnPracticeChallengesLoaded(name) ==
  /\ lastListenerId < 2 * MaxSubscriptions
  /\ LET freshId == GeneratedId(bumpGlobalCounter(lastListenerId))
         preFetchedId == GeneratedId(bumpGlobalCounter(bumpGlobalCounter(lastListenerId)))
         fresh == registerDerivedEventListener(Registry, "challenges", "session",
                                               Callback(name), freshId)
         both == registerDerivedEventListener(fresh, "challenges", "prefetched",
                                              Callback(name), preFetchedId)
     IN /\ lastListenerId' = bumpGlobalCounter(bumpGlobalCounter(lastListenerId))
        /\ listeners' = both.listeners
        /\ baseListenerCalls' = both.calls
        /\ unregisterFns' = unregisterFns \cup {ChallengesUnregisterFn(freshId)}
        /\ lastCall' = [NoCall EXCEPT !.op = "onPracticeChallengesLoaded",
                                      !.event = "challenges",
                                      !.id = freshId, !.callback = Callback(name)]
  /\ UNCHANGED <<vars, storeVars, hostVars>>

\* A practice session ("session") or a pre-fetched session ("prefetched") is loaded.
SessionLoaded(event, payload) ==
  LET called == callHookListeners(Registry, event, payload)
  IN /\ lastCall' = [NoCall EXCEPT !.op = "sessionLoaded", !.event = event,
                                   !.payload = payload, !.log = called.log]
     /\ listeners' = called.registry.listeners
     /\ baseListenerCalls' = called.registry.calls
     /\ UNCHANGED <<lastListenerId, unregisterFns, vars, storeVars, hostVars>>

\* The callers of onPracticeChallengesLoaded, and the sessions that are loaded.
SessionNext ==
  \/ \E name \in CallerCallbacks : OnPracticeChallengesLoaded(name)
  \/ \E fn \in unregisterFns : Unregister(fn)
  \/ \E event \in SessionBaseEvents, payload \in {SessionData, 0} : SessionLoaded(event, payload)

SpecSession == Init /\ [][SessionNext]_allVars

\* The registry used by callers whose callbacks register and unregister listeners
\* of "raw" while "raw" is being dispatched.
SnapshotNext ==
  \/ RegisterEventListenerAs("raw", "f")
  \/ \E name \in ReentrantCallbacks \cup {"f"} : RegisterEventListener("raw", name)
  \/ \E fn \in unregisterFns : Unregister(fn)
  \/ \E payload \in Payloads : DispatchEvent("raw", payload)

SpecSnapshot == Init /\ [][SnapshotNext]_allVars


----------------------------------------------------------------------------
(* The calls made on the shared global variables *)

GetSharedGlobalVariable(key, defaultValue) ==
  LET read == getSharedGlobalVariable(globalVariables, key, defaultValue)
  IN /\ globalVariables' = read.window
     /\ lastStoreCall' = [op |-> "get", key |-> key, callback |-> "",
                          defaultValue |-> defaultValue, value |-> read.value]
     /\ UNCHANGED <<vars, eventVars, hostVars>>

SetSharedGlobalVariable(key, value) ==
  /\ globalVariables' = setSharedGlobalVariable(globalVariables, key, value)
  /\ lastStoreCall' = [op |-> "set", key |-> key, callback |-> "",
                       defaultValue |-> 0, value |-> value]
  /\ UNCHANGED <<vars, eventVars, hostVars>>

UpdateSharedGlobalVariable(key, callback, defaultValue) ==
  LET updated == updateSharedGlobalVariable(globalVariables, key, callback, defaultValue)
  IN /\ updated.value \in Values
     /\ globalVariables' = updated.window
     /\ lastStoreCall' = [op |-> "update", key |-> key, callback |-> callback,
                          defaultValue |-> defaultValue, value |-> updated.value]
     /\ UNCHANGED <<vars, eventVars, hostVars>>

StoreNext ==
  \/ \E key \in Keys, defaultValue \in Values : GetSharedGlobalVariable(key, defaultValue)
  \/ \E key \in Keys, value \in Values : SetSharedGlobalVariable(key, value)
  \/ \E key \in Keys, callback \in UpdateCallbacks, defaultValue \in Values :
       UpdateSharedGlobalVariable(key, callback, defaultValue)

SpecStore == Init /\ [][StoreNext]_allVars

----------------------------------------------------------------------------
(* onDuoStateChanged: actions *)

\* onDuoStateChanged(callback): registerDerivedEventListener for "duoState" over
\* "storage", with registerStorageEventListener(_2, _3) as registerBaseListener. When
\* the listener of the base event has to be registered, registerStorageEventListener
\* first adds the 'storage' listener of the iframe if the iframe has none.
OnDuoStateChanged(name) ==
  /\ lastListenerId < MaxStateListeners
  /\ LET listenerId == GeneratedId(bumpGlobalCounter(lastListenerId))
         registered == registerDerivedEventListener(Registry, "duoState", "storage",
                                                    Callback(name), listenerId)
     IN /\ lastListenerId' = bumpGlobalCounter(lastListenerId)
        /\ hasStorageEventListener' =
             (hasStorageEventListener
                \/ ~hasEventListener(Registry, "storage", BaseListenerId("storage", "duoState")))
        /\ listeners' = registered.listeners
        /\ baseListenerCalls' = registered.calls
        /\ unregisterFns' =
             unregisterFns \cup {DerivedUnregisterFn("duoState", "storage", listenerId)}
        /\ lastCall' = [NoCall EXCEPT !.op = "onDuoStateChanged", !.event = "duoState",
                                      !.baseEvent = "storage",
                                      !.id = listenerId, !.callback = Callback(name)]
  /\ UNCHANGED <<vars, storeVars, uiVars, soundVars, overrideVars, settingVars, actionRequests>>

\* An item of the storage is changed from another window. The 'storage' listener of
\* the iframe, if there is one, calls
\* dispatchEvent(EVENT_TYPE_DUO_STATE_CHANGED, { key, oldValue, newValue }).
StorageItemChanged(key) ==
  /\ hasStorageEventListener
  /\ LET result == dispatchEvent(Registry, "duoState", StorageItemChange(key))
     IN /\ lastCall' = [NoCall EXCEPT !.op = "storageItemChanged", !.event = "duoState",
                                      !.payload = StorageItemChange(key),
                                      !.isNull = result.isNull, !.values = result.values,
                                      !.log = result.log, !.uncaught = result.uncaught]
        /\ listeners' = result.registry.listeners
        /\ baseListenerCalls' = result.registry.calls
  /\ UNCHANGED <<lastListenerId, unregisterFns, vars, storeVars, hostVars>>

StorageNext ==
  \/ \E name \in CallerCallbacks : OnDuoStateChanged(name)
  \/ \E fn \in unregisterFns : Unregister(fn)
  \/ \E key \in StorageKeys : StorageItemChanged(key)

SpecStorage == Init /\ [][StorageNext]_allVars

----------------------------------------------------------------------------
(* The sound detection listeners: actions *)

\* unregisterUnusedSoundDetectionListeners()
unregisterUnusedSoundDetectionListeners(detection, registry) ==
  IF /\ detection.callbacks # NoSet
     /\ \A event \in SoundEvents : ~hasEventListeners(registry, event)
  THEN [detection EXCEPT !.installed = @ \ {detection.callbacks},
                         !.version = 0,
                         !.callbacks = NoSet]
  ELSE detection

\* registerSoundDetectionListeners(), in a script whose build has the given
\* SOUND_DETECTION_LISTENERS_VERSION
registerSoundDetectionListeners(detection, registry, version) ==
  LET isDetectionActive == detection.callbacks # NoSet
      isDetectionUpToDate == version <= detection.version
  IN IF ~isDetectionActive \/ ~isDetectionUpToDate
     THEN LET unused == IF ~isDetectionUpToDate
                        THEN unregisterUnusedSoundDetectionListeners(detection, registry)
                        ELSE detection
              set == unused.installs + 1
          IN [version |-> version, callbacks |-> set,
              installed |-> unused.installed \cup {set}, installs |-> set]
     ELSE detection

\* onSoundInitialized(callback) for "soundInitialized", and
\* registerSoundPlaybackEventListener(event, callback) for the other events, called by
\* a script of the given build. Overriding the methods of Howl changes nothing here.
OnSoundEvent(event, build) ==
  /\ lastListenerId < MaxSoundListeners
  /\ LET listenerId == GeneratedId(bumpGlobalCounter(lastListenerId))
         registered == registerEventListener(Registry, event, Callback("f"), listenerId)
     IN /\ soundDetection' = registerSoundDetectionListeners(soundDetection, Registry, build)
        /\ lastListenerId' = bumpGlobalCounter(lastListenerId)
        /\ listeners' = registered.listeners
        /\ baseListenerCalls' = registered.calls
        /\ soundUnregisterFns' = soundUnregisterFns \cup {[event |-> event, id |-> listenerId]}
        /\ lastCall' = [NoCall EXCEPT !.op = "onSoundEvent", !.event = event,
                                      !.id = listenerId, !.callback = Callback("f")]
  /\ UNCHANGED <<unregisterFns, vars, storeVars, uiVars, hasStorageEventListener, overrideVars, settingVars, actionRequests>>

\* A caller calls the function it was given:
\* () => { unregisterDerived(); unregisterUnusedSoundDetectionListeners(); }
UnregisterSoundListener(fn) ==
  LET unregistered == unregisterEventListener(Registry, fn.event, fn.id)
  IN /\ listeners' = unregistered.listeners
     /\ baseListenerCalls' = unregistered.calls
     /\ soundDetection' = unregisterUnusedSoundDetectionListeners(soundDetection, unregistered)
     /\ lastCall' = [NoCall EXCEPT !.op = "unregisterSoundListener", !.event = fn.event,
                                   !.id = fn.id]
     /\ UNCHANGED <<lastListenerId, unregisterFns, soundUnregisterFns, vars, storeVars,
                    uiVars, hasStorageEventListener, overrideVars, settingVars, actionRequests>>

SoundNext ==
  \/ \E event \in SoundEvents, build \in Builds : OnSoundEvent(event, build)
  \/ \E fn \in soundUnregisterFns : UnregisterSoundListener(fn)

SpecSound == Init /\ [][SoundNext]_allVars

\* The scripts of the page all use this build.
SoundNextOneBuild ==
  \/ \E event \in SoundEvents : OnSoundEvent(event, SOUND_DETECTION_LISTENERS_VERSION)
  \/ \E fn \in soundUnregisterFns : UnregisterSoundListener(fn)

SpecSoundOneBuild == Init /\ [][SoundNextOneBuild]_allVars

----------------------------------------------------------------------------
(* overrideFunction and overrideOwnPropertyDescriptor: actions *)

\* applyOverride(original), for the applyOverride of the n-th call: a new function
\* that wraps the one it is given.
applyOverride(n, original) ==
  [base |-> original.base, overrides |-> <<n>> \o original.overrides]

\* overrideFunction taking the installed function for the original one.
overrideFunctionStacked(host, n, overrideVersion) ==
  IF overrideVersion > host.version
  THEN LET original == IF host.defined THEN host.fn ELSE Noop
       IN [defined |-> TRUE, fn |-> applyOverride(n, original), hasOriginal |-> TRUE,
           original |-> original, version |-> overrideVersion]
  ELSE host

\* overrideFunction(host, name, applyOverride, overrideVersion) on a host that is an
\* object, applyOverride being the one of the n-th call:
\* Number(host[name]?.[KEY_OVERRIDE_VERSION]) || 0 is host.version
overrideFunction(host, n, overrideVersion) ==
  IF overrideVersion > host.version
  THEN LET original == IF host.defined /\ host.hasOriginal THEN host.original
                       ELSE IF host.defined THEN host.fn
                       ELSE Noop
       IN [defined |-> TRUE, fn |-> applyOverride(n, original), hasOriginal |-> TRUE,
           original |-> original, version |-> overrideVersion]
  ELSE host

\* overrideOwnPropertyDescriptor(host, name, applyOverride, overrideVersion) on a host
\* that is an object, applyOverride being the one of the n-th call:
\* Number(host[overrideKey]) || 0 is property.overrideVersion, which nothing sets
overrideOwnPropertyDescriptor(property, n, overrideVersion) ==
  IF overrideVersion > property.overrideVersion
  THEN [property EXCEPT !.descriptor = applyOverride(n, property.descriptor)]
  ELSE property

\* The page defines the function of the host, before any script overrides it.
DefineHostFunction ==
  /\ ~hostFunction.defined
  /\ overrideCalls = <<>>
  /\ hostFunction' = PageFunction
  /\ UNCHANGED <<overrideCalls, hostProperty, descriptorCalls, vars, eventVars, storeVars,
                 uiVars, hasStorageEventListener, soundVars, settingVars, actionRequests>>

OverrideFunction(overrideVersion) ==
  /\ Len(overrideCalls) < MaxOverrideCalls
  /\ overrideCalls' = Append(overrideCalls, overrideVersion)
  /\ hostFunction' = overrideFunction(hostFunction, Len(overrideCalls) + 1, overrideVersion)
  /\ UNCHANGED <<hostProperty, descriptorCalls, vars, eventVars, storeVars, uiVars,
                 hasStorageEventListener, soundVars, settingVars, actionRequests>>

OverrideOwnPropertyDescriptor(overrideVersion) ==
  /\ Len(descriptorCalls) < MaxOverrideCalls
  /\ descriptorCalls' = Append(descriptorCalls, overrideVersion)
  /\ hostProperty' = overrideOwnPropertyDescriptor(hostProperty, Len(descriptorCalls) + 1,
                                                   overrideVersion)
  /\ UNCHANGED <<hostFunction, overrideCalls, vars, eventVars, storeVars, uiVars,
                 hasStorageEventListener, soundVars, settingVars, actionRequests>>

OverrideNext ==
  \/ DefineHostFunction
  \/ \E overrideVersion \in OverrideVersions : OverrideFunction(overrideVersion)
  \/ \E overrideVersion \in OverrideVersions : OverrideOwnPropertyDescriptor(overrideVersion)

SpecOverride == Init /\ [][OverrideNext]_allVars

----------------------------------------------------------------------------
(* setSoundSettingValue: actions *)

Min(a, b) == IF a <= b THEN a ELSE b

Max(a, b) == IF a >= b THEN a ELSE b

\* clampSoundSettingValue(SOUND_SETTING_RATE, value)
clampSoundSettingValue(value) == Max(RateMinValue, Min(value, RateMaxValue))

\* Number(sound[setting.priorityKey]) || 0
StoredPriority(object) == IF object.priority = Absent THEN 0 ELSE object.priority

\* setSoundSettingValue replacing a forced value only with a higher priority.
setSoundSettingValueStrict(object, value, isRelative, priority) ==
  IF priority > StoredPriority(object)
  THEN LET baseValue == clampSoundSettingValue(value)
           originalValue == IF object.originalValue = Absent THEN object.rate
                            ELSE object.originalValue
       IN [value |-> baseValue, priority |-> priority, isRelative |-> isRelative,
           originalValue |-> originalValue,
           rate |-> clampSoundSettingValue(IF ~isRelative THEN baseValue
                                           ELSE (baseValue * originalValue) \div RateUnit)]
  ELSE object

\* setSoundSettingValue(SOUND_SETTING_RATE, value, sound, playbackStrategy, isRelative,
\* priority) for a sound that has no queued update: the keys it stores on the sound,
\* and the rate it gives to the setter, baseValue * (!isRelative ? 1 : original value)
\* clamped (the product of two values in halves is rounded down to a half).
setSoundSettingValue(object, value, isRelative, priority) ==
  IF priority >= StoredPriority(object)
  THEN LET baseValue == clampSoundSettingValue(value)
           originalValue == IF object.originalValue = Absent THEN object.rate
                            ELSE object.originalValue
       IN [value |-> baseValue, priority |-> priority, isRelative |-> isRelative,
           originalValue |-> originalValue,
           rate |-> clampSoundSettingValue(IF ~isRelative THEN baseValue
                                           ELSE (baseValue * originalValue) \div RateUnit)]
  ELSE object

SetSoundSettingValue(value, isRelative, priority) ==
  /\ sound' = setSoundSettingValue(sound, value, isRelative, priority)
  /\ lastSetting' = [op |-> "setSoundSettingValue", value |-> value, priority |-> priority,
                     isRelative |-> isRelative]
  /\ UNCHANGED <<vars, eventVars, storeVars, uiVars, hasStorageEventListener, soundVars,
                 overrideVars, actionRequests>>

SettingNext ==
  \E value \in SettingValues, isRelative \in BOOLEAN, priority \in SettingPriorities :
    SetSoundSettingValue(value, isRelative, priority)

SpecSetting == Init /\ [][SettingNext]_allVars

----------------------------------------------------------------------------
(* onActionRequest: actions *)

\* The state that the actions of onActionRequest leave alone.
notIpcVars == <<vars, eventVars, storeVars, uiVars, hasStorageEventListener, soundVars,
                overrideVars, settingVars>>

\* sendResult(value) and sendError(error): isResponseSent = true; sendResponse(..).
\* by tells the responses of the callback from the ones of the listener itself.
sendResponse(request, type, by) ==
  [request EXCEPT !.isResponseSent = TRUE,
                  !.responses = Append(@, [type |-> type, by |-> by])]

\* The calls of sendResult and sendError the callback has made.
CallbackResponses(request) ==
  {k \in 1..Len(request.responses) : request.responses[k].by = "callback"}

\* The callback calling sendResult or sendError the given times, in any order.
RECURSIVE callbackSends(_, _)
callbackSends(request, types) ==
  IF types = <<>>
  THEN request
  ELSE callbackSends(sendResponse(request, Head(types), "callback"), Tail(types))

\* .catch(error => { sendError(error); }), without the test of isResponseSent
catchHandlerAlways(request) ==
  [sendResponse(request, "failure", "listener") EXCEPT !.phase = "done"]

\* catch (error) { !isResponseSent && sendError(error); } and
\* .catch(error => { if (!isResponseSent) { sendError(error); } })
catchHandler(request) ==
  IF ~request.isResponseSent
  THEN [sendResponse(request, "failure", "listener") EXCEPT !.phase = "done"]
  ELSE [request EXCEPT !.phase = "done"]

\* .then(() => { if (!isResponseSent) { throw new Error(..); } }): the promise that
\* .catch(..) was called on is rejected or fulfilled
thenHandler(request) ==
  IF ~request.isResponseSent
  THEN [request EXCEPT !.phase = "rejected"]
  ELSE [request EXCEPT !.phase = "done"]

\* The sequences of at most n result types.
RECURSIVE TypeSequences(_)
TypeSequences(n) ==
  IF n = 0
  THEN {<<>>}
  ELSE LET shorter == TypeSequences(n - 1)
       IN shorter \cup {Append(types, type) : types \in shorter, type \in ResultTypes}

\* A message of type MESSAGE_TYPE_ACTION_REQUEST is received. The callback is called:
\* it calls sendResult and sendError some times, and then it throws, or it returns a
\* promise (or a value, which Promise.resolve(..) makes a fulfilled promise).
ActionRequest(types, throws) ==
  /\ Len(actionRequests) < MaxActionRequests
  /\ LET received == [phase |-> "pending", isResponseSent |-> FALSE, responses |-> <<>>,
                      settled |-> "no"]
         called == callbackSends(received, types)
     IN actionRequests' =
          Append(actionRequests,
                 IF throws THEN [catchHandler(called) EXCEPT !.settled = "thrown"] ELSE called)
  /\ UNCHANGED notIpcVars

\* The callback goes on before its promise is settled, and calls sendResult or
\* sendError.
CallbackSends(i, type) ==
  /\ actionRequests[i].phase = "pending"
  /\ Cardinality(CallbackResponses(actionRequests[i])) < MaxCallbackResponses
  /\ actionRequests' =
       [actionRequests EXCEPT ![i] = sendResponse(@, type, "callback")]
  /\ UNCHANGED notIpcVars

\* The promise of the callback is fulfilled: the function given to .then(..) runs.
CallbackResolves(i) ==
  /\ actionRequests[i].phase = "pending"
  /\ actionRequests' = [actionRequests EXCEPT ![i] = [thenHandler(@) EXCEPT !.settled = "fulfilled"]]
  /\ UNCHANGED notIpcVars

\* The promise of the callback is rejected: .then(..) passes the rejection on.
CallbackRejects(i) ==
  /\ actionRequests[i].phase = "pending"
  /\ actionRequests' = [actionRequests EXCEPT ![i].phase = "rejected", ![i].settled = "rejected"]
  /\ UNCHANGED notIpcVars

\* The function given to .catch(..) runs.
RunCatchHandler(i) ==
  /\ actionRequests[i].phase = "rejected"
  /\ actionRequests' = [actionRequests EXCEPT ![i] = catchHandler(@)]
  /\ UNCHANGED notIpcVars

IpcNext ==
  \/ \E types \in TypeSequences(MaxCallbackResponses), throws \in BOOLEAN :
       ActionRequest(types, throws)
  \/ \E i \in 1..Len(actionRequests), type \in ResultTypes : CallbackSends(i, type)
  \/ \E i \in 1..Len(actionRequests) : CallbackResolves(i)
  \/ \E i \in 1..Len(actionRequests) : CallbackRejects(i)
  \/ \E i \in 1..Len(actionRequests) : RunCatchHandler(i)

SpecIpc == Init /\ [][IpcNext]_allVars

----------------------------------------------------------------------------
(* onUiLoaded: actions *)

\* The state that the actions of onUiLoaded leave alone.
notUiVars == <<vars, eventVars, storeVars, hasStorageEventListener, soundVars, overrideVars, settingVars, actionRequests>>

\* The calls a dispatch of EVENT_TYPE_UI_LOADED adds: dispatchEvent calls each listener
\* of the event once, whatever the listeners before it did.
dispatchUiLoaded(calls, list) ==
  [n \in UiCallbacks |->
     calls[n] + Cardinality({i \in 1..Len(list) : list[i] = n})]

\* onUiLoaded(callback), callback being a function that was not passed before.
\* The detection callback is set up when 'is_ui_loading_detected' is not set: it is
\* given to setTimeout(.., 1) or to the DOMContentLoaded event, depending on
\* document.readyState.
OnUiLoaded ==
  /\ uiRegistered < MaxUiCallbacks
  /\ LET callback == uiRegistered + 1
     IN /\ uiRegistered' = callback
        /\ IF uiVariables.isUiLoaded
           THEN /\ uiTimers' = uiTimers \cup {callback}
                /\ UNCHANGED <<uiDomListeners, uiDetections, uiListeners>>
           ELSE /\ IF ~uiVariables.isUiLoadingDetected
                   THEN IF uiDocumentReady
                        THEN uiDetections' = uiDetections + 1 /\ UNCHANGED uiDomListeners
                        ELSE uiDomListeners' = uiDomListeners + 1 /\ UNCHANGED uiDetections
                   ELSE UNCHANGED <<uiDomListeners, uiDetections>>
                /\ uiListeners' = Append(uiListeners, callback)
                /\ UNCHANGED uiTimers
  /\ UNCHANGED <<uiVariables, uiDocumentReady, uiCssWaits, uiCalls, notUiVars>>

\* The document is parsed: 'DOMContentLoaded' is dispatched, and every detection
\* callback that listens to it starts waiting for cssLoadedPromise.
DomContentLoaded ==
  /\ ~uiDocumentReady
  /\ uiDocumentReady' = TRUE
  /\ uiCssWaits' = uiCssWaits + uiDomListeners
  /\ uiDomListeners' = 0
  /\ UNCHANGED <<uiVariables, uiRegistered, uiListeners, uiDetections, uiTimers, uiCalls,
                 notUiVars>>

\* A detection callback given to setTimeout(.., 1) runs: it starts waiting for
\* cssLoadedPromise.
RunUiDetection ==
  /\ uiDetections > 0
  /\ uiDetections' = uiDetections - 1
  /\ uiCssWaits' = uiCssWaits + 1
  /\ UNCHANGED <<uiVariables, uiRegistered, uiListeners, uiDocumentReady, uiDomListeners,
                 uiTimers, uiCalls, notUiVars>>

\* A cssLoadedPromise is resolved and its continuation runs:
\* setSharedGlobalVariable(KEY_IS_UI_LOADED, true); dispatchEvent(EVENT_TYPE_UI_LOADED)
UiLoadingDetected ==
  /\ uiCssWaits > 0
  /\ uiCssWaits' = uiCssWaits - 1
  /\ uiVariables' = [uiVariables EXCEPT !.isUiLoaded = TRUE]
  /\ uiCalls' = dispatchUiLoaded(uiCalls, uiListeners)
  /\ UNCHANGED <<uiRegistered, uiListeners, uiDocumentReady, uiDomListeners, uiDetections,
                 uiTimers, notUiVars>>

\* A callback given to setTimeout(callback) runs.
RunUiTimer(callback) ==
  /\ callback \in uiTimers
  /\ uiTimers' = uiTimers \ {callback}
  /\ uiCalls' = [uiCalls EXCEPT ![callback] = @ + 1]
  /\ UNCHANGED <<uiVariables, uiRegistered, uiListeners, uiDocumentReady, uiDomListeners,
                 uiDetections, uiCssWaits, notUiVars>>

UiNext ==
  \/ OnUiLoaded
  \/ DomContentLoaded
  \/ RunUiDetection
  \/ UiLoadingDetected
  \/ \E callback \in UiCallbacks : RunUiTimer(callback)

SpecUi == Init /\ [][UiNext]_allVars

----------------------------------------------------------------------------
(* What the store shows of the mutex *)

\* mutexes[mutexCode]?.currentHolder
CurrentHolder == EnsuredMutex.currentHolder

\* mutexes[mutexCode]?.pendingHolders
PendingHolders == EnsuredMutex.pendingHolders

\* isMutexLocked(mutexCode)
isMutexLocked == mutexes # Undefined /\ heap[mutexes].currentHolder # NoHolder

Holders == 1..counter

InPending(h) == \E i \in 1..Len(PendingHolders) : PendingHolders[i].uniqueId = h

\* The step is a call of the release function of h.
ReleaseStep(h) == releaseCalls'[h] = releaseCalls[h] + 1

\* The step is a call of requestMutex.
RequestStep == counter' # counter

\* The step is the expiry of the timeout of h.
TimeoutStep(h) == h \in timeouts /\ h \notin timeouts' /\ promise'[h].state = "rejected"

QueuedTypes == {timerQueue[i].type : i \in 1..Len(timerQueue)}

----------------------------------------------------------------------------
(* Claims *)

\* The requests whose promise resolved with a release function not called yet.
ActiveHolders == {h \in Holders : promise[h].state = "resolved" /\ releaseCalls[h] = 0}

\* C1: mutual exclusion. As long as no release function has been called more than
\* once, at most one request is an active holder: its promise has resolved with a
\* release function and that function has not been called yet.
C1_MutualExclusion ==
  (\A h \in Holders : releaseCalls[h] <= 1) => Cardinality(ActiveHolders) <= 1

\* One holder is active after an earlier holder released, and a request is waiting.
C1_Witness ==
  /\ \A h \in Holders : releaseCalls[h] <= 1
  /\ \E h \in ActiveHolders : h > 1 /\ CurrentHolder.uniqueId = h
  /\ counter >= 1 /\ releaseCalls[1] = 1
  /\ PendingHolders # <<>>

\* C2: a stale or duplicate release is a no-op. A call of the release function of a
\* holder that is not the current holder leaves currentHolder and pendingHolders as
\* they were and schedules no callback.
C2_StaleReleaseIsNoOp ==
  [][\A h \in Holders :
       (ReleaseStep(h) /\ CurrentHolder.uniqueId # h)
         => /\ CurrentHolder' = CurrentHolder
            /\ PendingHolders' = PendingHolders
            /\ timerQueue' = timerQueue]_vars

\* C3: an effective release with pending holders promotes the pending holder of the
\* highest priority, the first enqueued among those of that priority; it is removed
\* from pendingHolders and the others keep their order.
C3_ReleasePromotesFirstHighest ==
  [][\A h \in Holders :
       (ReleaseStep(h) /\ CurrentHolder.uniqueId = h /\ PendingHolders # <<>>)
         => \E i \in 1..Len(PendingHolders) :
              /\ CurrentHolder' = PendingHolders[i]
              /\ \A j \in 1..Len(PendingHolders) :
                   PendingHolders[j].priority <= PendingHolders[i].priority
              /\ \A j \in 1..(i - 1) :
                   PendingHolders[j].priority < PendingHolders[i].priority
              /\ PendingHolders' = RemoveAt(PendingHolders, i)]_vars

\* Holders 2 and 3, of the same priority, both arrived while holder 1 held the mutex;
\* holder 1 released, holder 2 was promoted and holder 3 still waits.
C3_Witness ==
  /\ counter = 3
  /\ arrivals[1] = 2
  /\ releaseCalls[1] = 1
  /\ CurrentHolder.uniqueId = 2
  /\ Len(PendingHolders) = 1
  /\ PendingHolders[1].uniqueId = 3
  /\ PendingHolders[1].priority = CurrentHolder.priority

\* C4: a request that is the current holder is immune to its own timeout: its promise
\* is never rejected.
C4_HolderNeverRejected ==
  \A h \in Holders : CurrentHolder.uniqueId = h => promise[h].state # "rejected"

\* The request h timed out and is neither the current holder nor a pending holder.
Gone(h) ==
  /\ promise[h].state = "rejected"
  /\ CurrentHolder.uniqueId # h
  /\ ~InPending(h)

\* C5: a request whose timeout expires while it is pending is removed from
\* pendingHolders, and from then on no step makes it the current holder, puts it back
\* among the pending holders or resolves its promise.
C5_TimedOutNeverPromoted ==
  [][\A h \in Holders :
       ((TimeoutStep(h) /\ InPending(h)) \/ Gone(h)) => Gone(h)']_vars

\* Request 2 timed out while request 1 held the mutex, and request 1 released after
\* that: the release promoted nobody.
C5_Witness ==
  /\ counter >= 2
  /\ Gone(2)
  /\ releaseCalls[1] = 1
  /\ \A h \in Holders : h > 1 => releaseCalls[h] = 0
  /\ CurrentHolder = NoHolder

\* C6: the promise of a request that timed out is rejected with a TimeoutError.
C6_RejectedWithTimeoutError ==
  \A h \in Holders : promise[h].state = "rejected" => promise[h].value = "TimeoutError"

\* C7: no callback runs inside the operation that triggers it. A call of requestMutex
\* or of a release function settles no promise and calls no onSupersessionRequest:
\* it only adds callbacks to the queue of deferred ones.
C7_CallbacksAreDeferred ==
  [][(RequestStep \/ \E h \in Holders : ReleaseStep(h))
       => /\ \A h \in Holders :
               /\ promise'[h] = promise[h]
               /\ supersessions'[h] = supersessions[h]
          /\ RequestStep => promise'[counter'] = NoResult
          /\ Len(timerQueue') >= Len(timerQueue)
          /\ SubSeq(timerQueue', 1, Len(timerQueue)) = timerQueue]_vars

\* A promoted holder and a request on a free mutex both wait for their deferred
\* onAcquired: the holder is current, its promise is not resolved yet.
C7_Witness ==
  /\ counter >= 2
  /\ releaseCalls[1] = 1
  /\ CurrentHolder # NoHolder
  /\ promise[CurrentHolder.uniqueId].state = "pending"
  /\ "onAcquired" \in QueuedTypes

\* C8: requestMutex on a mutex without current holder makes the requester the current
\* holder at once (isMutexLocked is true) and leaves pendingHolders as it was; on a
\* held mutex it leaves currentHolder as it was and appends the requester at the end
\* of pendingHolders.
C8_RequestTakesOrEnqueues ==
  [][RequestStep
       => IF CurrentHolder = NoHolder
          THEN /\ CurrentHolder'.uniqueId = counter'
               /\ isMutexLocked'
               /\ PendingHolders' = PendingHolders
          ELSE /\ CurrentHolder' = CurrentHolder
               /\ Len(PendingHolders') = Len(PendingHolders) + 1
               /\ SubSeq(PendingHolders', 1, Len(PendingHolders)) = PendingHolders
               /\ PendingHolders'[Len(PendingHolders')].uniqueId = counter']_vars

\* The first request took the free mutex and the other two were enqueued in order.
C8_Witness ==
  /\ counter = 3
  /\ CurrentHolder.uniqueId = 1
  /\ Len(PendingHolders) = 2
  /\ PendingHolders[1].uniqueId = 2
  /\ PendingHolders[2].uniqueId = 3

\* C9: supersession notices are counted per arrival. The onSupersessionRequest of a
\* holder is never called more often than requests of a strictly higher priority
\* arrived while it held the mutex, and once no notice is waiting to be delivered, the
\* current holder has been called exactly once per such arrival.
C9_SupersessionPerArrival ==
  \A h \in Holders :
    /\ supersessions[h] <= arrivals[h]
    /\ (CurrentHolder.uniqueId = h /\ "onSupersessionRequest" \notin QueuedTypes)
         => supersessions[h] = arrivals[h]

\* C10: supersession is advisory only. The current holder of a mutex stops being the
\* current holder only in a call of its own release function; the arrival of a
\* request never changes it.
C10_HolderChangesOnlyByOwnRelease ==
  [][(CurrentHolder # NoHolder /\ CurrentHolder' # CurrentHolder)
       => ReleaseStep(CurrentHolder.uniqueId)]_vars

\* A priority clamped into the range of the priorities, at its lower end.
clamped(priority) == IF priority < PRIORITY_LOWEST THEN PRIORITY_LOWEST ELSE priority

\* C11: priorities are clamped into [PRIORITY_LOWEST, PRIORITY_HIGHEST]. A request
\* with a priority below PRIORITY_LOWEST counts as one of PRIORITY_LOWEST: on a held
\* mutex, a supersession notice is scheduled exactly when the clamped priority of the
\* request is greater than the clamped priority of the current holder.
C11_PrioritiesAreClamped ==
  [][(RequestStep /\ CurrentHolder # NoHolder)
       => ((Len(timerQueue') > Len(timerQueue))
             <=> (clamped(PendingHolders'[Len(PendingHolders')].priority)
                    > clamped(CurrentHolder.priority)))]_vars

\* The uniqueIds of the pending holders.
PendingIds == {PendingHolders[i].uniqueId : i \in 1..Len(PendingHolders)}

\* C12: pendingHolders holds no two holders of the same uniqueId and not the current
\* holder, and it is empty whenever there is no current holder.
C12_PendingHoldersWellFormed ==
  /\ Cardinality(PendingIds) = Len(PendingHolders)
  /\ CurrentHolder.uniqueId \notin PendingIds
  /\ CurrentHolder = NoHolder => PendingHolders = <<>>

\* A holder was promoted by a release and another request still waits.
C12_Witness ==
  /\ counter = 3
  /\ releaseCalls[1] = 1
  /\ CurrentHolder.uniqueId = 3
  /\ PendingIds = {2}
  /\ arrivals[1] = 1

\* C13: the expiry of the timeout of a request changes only pendingHolders:
\* currentHolder is the same before and after, and the other pending holders stay
\* pending in the same order.
C13_TimeoutChangesOnlyPending ==
  [][\A h \in Holders :
       TimeoutStep(h)
         => /\ CurrentHolder' = CurrentHolder
            /\ isMutexLocked' = isMutexLocked
            /\ IF InPending(h)
               THEN \E i \in 1..Len(PendingHolders) :
                      /\ PendingHolders[i].uniqueId = h
                      /\ PendingHolders' = RemoveAt(PendingHolders, i)
               ELSE PendingHolders' = PendingHolders]_vars

\* Request 2 timed out between requests 1 and 3: request 1 still holds the mutex and
\* request 3 is the only pending holder.
C13_Witness ==
  /\ counter = 3
  /\ promise[2].state = "rejected"
  /\ CurrentHolder.uniqueId = 1
  /\ PendingIds = {3}
  /\ releaseCalls[1] = 0

\* C14: a release by the current holder while nobody is pending frees the mutex
\* (currentHolder is null, isMutexLocked is false), and a request made on a free mutex
\* becomes the current holder at once, without being queued.
C14_ReleaseFreesMutex ==
  [][/\ \A h \in Holders :
          (ReleaseStep(h) /\ CurrentHolder.uniqueId = h /\ PendingHolders = <<>>)
            => (CurrentHolder' = NoHolder /\ ~isMutexLocked' /\ PendingHolders' = <<>>)
     /\ (RequestStep /\ ~isMutexLocked)
            => (CurrentHolder'.uniqueId = counter' /\ PendingHolders' = <<>>)]_vars

\* The mutex is free after the release of its only holder.
C14_Witness ==
  /\ counter = 1
  /\ releaseCalls[1] = 1
  /\ mutexes # Undefined
  /\ ~isMutexLocked

\* The uniqueId of the holder a call of requestMutex stored in the mutex.
StoredHolderId ==
  IF CurrentHolder = NoHolder
  THEN CurrentHolder'.uniqueId
  ELSE PendingHolders'[Len(PendingHolders')].uniqueId

----------------------------------------------------------------------------
(* The event registry: what the claims are about *)

\* The callback registered under an ID in a list of listeners, "none" for an ID
\* that is not registered.
CallbackOf(list, listenerId) ==
  IF \E i \in 1..Len(list) : list[i].id = listenerId
  THEN (CHOOSE entry \in {list[i] : i \in 1..Len(list)} : entry.id = listenerId).callback
  ELSE [kind |-> "none", name |-> "", derivedEvent |-> ""]

\* How many listeners of a list are registered under an ID.
CountOf(list, listenerId) ==
  Cardinality({i \in 1..Len(list) : list[i].id = listenerId})

ListenerIds == {GivenId} \cup {GeneratedId(n) : n \in 1..MaxListenerIds}
                 \cup {BaseListenerId(BaseEvent[d], d) : d \in DerivedEvents}

\* The calls of one listener of an event that a dispatch made.
CallsOf(log, event, listenerId) ==
  {k \in 1..Len(log) : log[k].event = event /\ log[k].id = listenerId}

\* C16: dispatchEvent isolates the failures of the listeners. Whatever listeners an
\* event has, a dispatch calls each of them exactly once, with the payload that was
\* dispatched, also when other listeners throw, and nothing a listener throws
\* reaches the caller of dispatchEvent.
C16_DispatchIsolatesFailures ==
  lastCall.op = "dispatchEvent" =>
    /\ ~lastCall.uncaught
    /\ \A i \in 1..Len(listeners[lastCall.event]) :
         LET calls == CallsOf(lastCall.log, lastCall.event, listeners[lastCall.event][i].id)
         IN /\ Cardinality(calls) = 1
            /\ \A k \in calls : lastCall.log[k].payload = lastCall.payload

\* A dispatch to three listeners, the first of which throws.
C16_Witness ==
  /\ lastCall.op = "dispatchEvent"
  /\ Len(listeners[lastCall.event]) = 3
  /\ listeners[lastCall.event][1].callback = Callback("bad")
  /\ listeners[lastCall.event][3].callback = Callback("f")

\* What a listener returns when it does not throw.
ReturnValueOf(callback) == IF callback.kind = "caller" THEN callback.name ELSE "undefined"

\* The listeners of a list that return.
Returning(list) == SelectSeq(list, LAMBDA entry : entry.callback # Callback("bad"))

\* C17: dispatchEvent returns null if and only if the event has no listener;
\* otherwise it returns the list of the values returned by the listeners that did not
\* throw, which is empty when all of them threw.
C17_NullIffNoListeners ==
  lastCall.op = "dispatchEvent" =>
    /\ lastCall.isNull <=> listeners[lastCall.event] = <<>>
    /\ lastCall.values = [i \in 1..Len(Returning(listeners[lastCall.event])) |->
                            ReturnValueOf(Returning(listeners[lastCall.event])[i].callback)]

\* A dispatch to two listeners which both throw: the result is an empty list.
C17_Witness ==
  /\ lastCall.op = "dispatchEvent"
  /\ Len(listeners[lastCall.event]) = 2
  /\ Returning(listeners[lastCall.event]) = <<>>
  /\ ~lastCall.isNull

\* C18: registerEventListener upserts by listener ID. After callback c is registered
\* under ID i for event e, the listeners of e map i to c, once, and every other ID to
\* what it mapped to before, with one more listener only if i was not registered; the
\* function it returned removes the entry of i, and a dispatch calls only listeners
\* that are registered.
C18_RegisterUpserts ==
  [][/\ lastCall'.op = "registerEventListener" =>
          /\ CallbackOf(listeners'[lastCall'.event], lastCall'.id) = lastCall'.callback
          /\ CountOf(listeners'[lastCall'.event], lastCall'.id) = 1
          /\ \A id \in ListenerIds \ {lastCall'.id} :
               CallbackOf(listeners'[lastCall'.event], id) = CallbackOf(listeners[lastCall'.event], id)
          /\ Len(listeners'[lastCall'.event]) =
               Len(listeners[lastCall'.event])
                 + (IF hasEventListener(Registry, lastCall'.event, lastCall'.id) THEN 0 ELSE 1)
          /\ \A event \in Events \ {lastCall'.event} : listeners'[event] = listeners[event]
     /\ (lastCall'.op = "unregister" /\ lastCall'.baseEvent = "") =>
          /\ CountOf(listeners'[lastCall'.event], lastCall'.id) = 0
          /\ \A id \in ListenerIds \ {lastCall'.id} :
               CallbackOf(listeners'[lastCall'.event], id) = CallbackOf(listeners[lastCall'.event], id)
     /\ lastCall'.op = "dispatchEvent" =>
          \A k \in 1..Len(lastCall'.log) :
            CountOf(listeners'[lastCall'.log[k].event], lastCall'.log[k].id) = 1
    ]_allVars

\* A dispatch to the listeners that remain after the listener registered under the
\* caller's ID was unregistered.
C18_Witness ==
  /\ lastCall.op = "dispatchEvent"
  /\ lastCall.event = "raw"
  /\ \E name \in CallerCallbacks : PlainUnregisterFn("raw", GivenId, Callback(name)) \in unregisterFns
  /\ CountOf(listeners["raw"], GivenId) = 0
  /\ Len(lastCall.log) >= 2

\* Whether the listener of a derived event is installed on its base event.
BaseListenerInstalled(derivedEvent) ==
  hasEventListener(Registry, BaseEvent[derivedEvent],
                   BaseListenerId(BaseEvent[derivedEvent], derivedEvent))

\* C19: for the pair ("parsed", "raw") and any sequence of calls of
\* registerDerivedEventListener and of the functions it returned, the base event holds
\* exactly one hidden listener of the pair while a derived listener of the pair
\* remains, and none once all of them are unregistered; registerBaseListener is
\* called only when no hidden listener of the pair is installed.
C19_OneBaseListenerPerPair ==
  [][/\ CountOf(listeners'["raw"], BaseListenerId("raw", "parsed"))
          = (IF listeners'["parsed"] # <<>> THEN 1 ELSE 0)
     /\ baseListenerCalls'[<<"raw", "parsed">>] # baseListenerCalls[<<"raw", "parsed">>] =>
          /\ ~BaseListenerInstalled("parsed")
          /\ baseListenerCalls'[<<"raw", "parsed">>] = baseListenerCalls[<<"raw", "parsed">>] + 1
    ]_allVars

\* The hidden listener was installed, removed with the last derived listener, and
\* installed again for another derived listener.
C19_Witness ==
  /\ baseListenerCalls[<<"raw", "parsed">>] = 2
  /\ Len(listeners["parsed"]) = 1
  /\ BaseListenerInstalled("parsed")

\* C20: unregistration cascades through a chain of derived events. When the last
\* listener of "digest" (derived from "parsed", itself derived from "raw") is
\* unregistered, the hidden listener on "parsed" is removed and, if "parsed" then has
\* no listener left, so is the hidden listener on "raw"; a level that still has
\* listeners keeps its hidden listener.
C20_UnregistrationCascades ==
  [][(lastCall'.op = "unregister" /\ lastCall'.baseEvent # "") =>
       \A derivedEvent \in DerivedEvents :
         BaseListenerInstalled(derivedEvent)' <=> listeners'[derivedEvent] # <<>>
    ]_allVars

\* The calls of the listeners of an event that a dispatch made.
CallsOfEvent(log, event) == {k \in 1..Len(log) : log[k].event = event}

\* C21: for every occurrence of a base event, if mapPayload returns anything but an
\* array, the derived event is not dispatched and no derived listener is called; if
\* it returns an array, the derived event is dispatched once, with the elements of
\* the array as the payload.
C21_NonArraySuppressesDispatch ==
  \A derivedEvent \in DerivedEvents :
    (/\ lastCall.op = "dispatchEvent"
     /\ lastCall.event = BaseEvent[derivedEvent]
     /\ BaseListenerInstalled(derivedEvent)) =>
       IF isArray(mapPayload(lastCall.payload))
       THEN \A i \in 1..Len(listeners[derivedEvent]) :
              LET calls == CallsOf(lastCall.log, derivedEvent, listeners[derivedEvent][i].id)
              IN /\ Cardinality(calls) = 1
                 /\ \A k \in calls : lastCall.log[k].payload = spread(mapPayload(lastCall.payload))
       ELSE CallsOfEvent(lastCall.log, derivedEvent) = {}

\* "raw" was dispatched with a payload that is not an array while "parsed" had two
\* listeners.
C21_Witness ==
  /\ lastCall.op = "dispatchEvent"
  /\ lastCall.event = "raw"
  /\ ~isArray(mapPayload(lastCall.payload))
  /\ BaseListenerInstalled("parsed")
  /\ Len(listeners["parsed"]) = 2

\* C22: with a listener registered for "parsed", derived from "raw", dispatching
\* "raw" with an array calls that listener on a later turn, not inside the call of
\* dispatchEvent: the calls a dispatch of "raw" makes before it returns are calls of
\* listeners of "raw" only.
C22_DerivedListenerRunsOnLaterTurn ==
  (lastCall.op = "dispatchEvent" /\ lastCall.event = "raw") =>
    CallsOfEvent(lastCall.log, "parsed") = {}

----------------------------------------------------------------------------
(* The shared global variables: what the claims are about *)

\* The value window[KEY_GLOBAL_VARIABLES] holds for a key, Absent when it has none.
StoredValue(window, key) == IF window.isObject THEN window.entries[key] ELSE Absent

\* C23: updateSharedGlobalVariable(key, fn, default) is a read-modify-write that
\* loses no update in any sequence of calls that are not nested: it applies fn to the
\* current value of the key, or to the default when the key was never set, stores the
\* result under the key, returns it, and leaves every other key as it was;
\* getSharedGlobalVariable on a key that was never set returns the default and does
\* not store it.
C23_UpdateIsReadModifyWrite ==
  [][/\ lastStoreCall'.op = "update" =>
          LET key == lastStoreCall'.key
              current == IF StoredValue(globalVariables, key) = Absent
                         THEN lastStoreCall'.defaultValue
                         ELSE StoredValue(globalVariables, key)
          IN /\ StoredValue(globalVariables', key) = applyCallback(lastStoreCall'.callback, current)
             /\ lastStoreCall'.value = applyCallback(lastStoreCall'.callback, current)
             /\ \A other \in Keys \ {key} :
                  StoredValue(globalVariables', other) = StoredValue(globalVariables, other)
     /\ lastStoreCall'.op = "get" =>
          /\ \A key \in Keys :
               StoredValue(globalVariables', key) = StoredValue(globalVariables, key)
          /\ lastStoreCall'.value =
               (IF StoredValue(globalVariables, lastStoreCall'.key) = Absent
                THEN lastStoreCall'.defaultValue
                ELSE StoredValue(globalVariables, lastStoreCall'.key))
    ]_allVars

\* A counter that started from its default was bumped to 3 while the other key was
\* updated in between.
C23_Witness ==
  /\ lastStoreCall.op = "update"
  /\ lastStoreCall.callback = "increment"
  /\ lastStoreCall.key = "a"
  /\ lastStoreCall.value = 3
  /\ StoredValue(globalVariables, "b") = 1

----------------------------------------------------------------------------
(* The mutex: further claims *)

\* C24: a supersession notice goes to the holder that was current when the request
\* of higher priority was enqueued. If that holder releases the mutex before the
\* deferred notice runs, the onSupersessionRequest of the holder promoted since is not
\* called in its place, and the notice never fails on a missing holder: a holder is
\* only ever notified of requests that arrived while it held the mutex.
C24_NoticeGoesToHolderAtEnqueue ==
  /\ ~typeError
  /\ \A h \in Holders : supersessions[h] > 0 => arrivals[h] > 0

\* C25: no request is lost. After any sequence of requests, releases (duplicate ones
\* included) and timeouts, every request that has neither timed out nor been released
\* is the currentHolder of the mutex or one of its pendingHolders.
C25_NoRequestIsLost ==
  \A h \in Holders :
    (promise[h].state # "rejected" /\ releaseCalls[h] = 0) =>
      (CurrentHolder.uniqueId = h \/ InPending(h))

\* C26: no starvation for a finite workload. For a finite set of requests on the
\* mutex, none with a timeout, whose holders each call their release function once
\* after their promise resolved, the promise of every request eventually resolves and
\* the mutex eventually becomes free.
C26_EveryRequestIsServed ==
  /\ \A h \in 1..MaxRequests :
       [](counter >= h => <>(counter >= h /\ promise[h].state = "resolved"))
  /\ [](counter > 0 => <>(~isMutexLocked /\ \A h \in Holders : releaseCalls[h] = 1))

\* Three requests were served, the last one promoted out of the pending holders,
\* and the mutex is free again.
C26_Witness ==
  /\ counter = 3
  /\ \A h \in Holders : promise[h].state = "resolved" /\ releaseCalls[h] = 1
  /\ arrivals[1] > 0
  /\ ~isMutexLocked

----------------------------------------------------------------------------
(* The event registry: further claims *)

\* C30: dispatchEvent works on the listeners as they were when it was called. Every
\* listener registered for the event at that moment is called exactly once in that
\* dispatch, also when an earlier listener unregisters it during the dispatch, and a
\* listener registered during the dispatch is not called before the next dispatch.
C30_DispatchUsesSnapshot ==
  [][lastCall'.op = "dispatchEvent" =>
       /\ \A i \in 1..Len(listeners[lastCall'.event]) :
            Cardinality(CallsOf(lastCall'.log, lastCall'.event,
                                listeners[lastCall'.event][i].id)) = 1
       /\ \A k \in CallsOfEvent(lastCall'.log, lastCall'.event) :
            hasEventListener(Registry, lastCall'.event, lastCall'.log[k].id)
    ]_allVars

\* The listener registered under the caller's ID was called in the last dispatch
\* although a listener called before it unregistered it.
C30_Witness ==
  /\ lastCall.op = "dispatchEvent"
  /\ CallsOf(lastCall.log, "raw", GivenId) # {}
  /\ ~hasEventListener(Registry, "raw", GivenId)

\* C27: a derived event fed by several base events leaves no hidden listener behind.
\* When listeners of "challenges" are registered over both "session" and
\* "prefetched", then once every one of them has been unregistered, no hidden
\* listener of "challenges" remains on either base event.
C27_NoBaseListenerLeftBehind ==
  listeners["challenges"] = <<>> =>
    \A baseEvent \in SessionBaseEvents :
      ~hasEventListener(Registry, baseEvent, BaseListenerId(baseEvent, "challenges"))

\* The two listeners that one call of onPracticeChallengesLoaded registered, while
\* both are registered.
ListenersOf(fn) ==
  IF /\ fn.kind = "challenges"
     /\ hasEventListener(Registry, "challenges", fn.id)
     /\ hasEventListener(Registry, "challenges", GeneratedId(fn.id.n + 1))
  THEN {fn.id, GeneratedId(fn.id.n + 1)}
  ELSE {}

\* C28: a callback registered once through onPracticeChallengesLoaded is called
\* exactly once for each loaded session (practice or pre-fetched) whose payload maps
\* to a list of challenges, not once per base event "challenges" is derived from.
C28_OneCallPerLoadedSession ==
  (lastCall.op = "sessionLoaded" /\ isArray(getSessionChallenges(lastCall.payload))) =>
    \A fn \in unregisterFns :
      ListenersOf(fn) # {} =>
        Cardinality({k \in CallsOfEvent(lastCall.log, "challenges") :
                       lastCall.log[k].id \in ListenersOf(fn)}) = 1

\* C29: an unregister function removes only the registration it was returned for. If
\* another callback has been registered under the same ID for the same event since,
\* calling the function returned for the first registration leaves the later callback
\* registered.
C29_UnregisterRemovesOwnRegistration ==
  [][(/\ lastCall'.op = "unregister"
      /\ lastCall'.baseEvent = ""
      /\ hasEventListener(Registry, lastCall'.event, lastCall'.id)
      /\ CallbackOf(listeners[lastCall'.event], lastCall'.id) # lastCall'.callback) =>
       CallbackOf(listeners'[lastCall'.event], lastCall'.id)
         = CallbackOf(listeners[lastCall'.event], lastCall'.id)
    ]_allVars

\* C31: a derived subscription can be installed again. Once the hidden listener of
\* the pair ("parsed", "raw") has been removed with the last listener of "parsed", a
\* new registerDerivedEventListener call for the pair installs it again, and a later
\* dispatch of "raw" whose payload maps to an array calls each listener registered
\* since exactly once.
C31_DerivedSubscriptionIsReinstallable ==
  [][/\ (/\ lastCall'.op = "registerDerivedEventListener"
         /\ lastCall'.event = "parsed"
         /\ ~BaseListenerInstalled("parsed")) =>
          /\ BaseListenerInstalled("parsed")'
          /\ hasEventListener(Registry', "parsed", lastCall'.id)
     /\ (/\ lastCall'.op = "dispatchEvent"
         /\ lastCall'.event = "raw"
         /\ isArray(mapPayload(lastCall'.payload))
         /\ baseListenerCalls[<<"raw", "parsed">>] > 1) =>
          \A i \in 1..Len(listeners["parsed"]) :
            Cardinality(CallsOf(lastCall'.log, "parsed", listeners["parsed"][i].id)) = 1
    ]_allVars

\* The hidden listener was installed a second time, and "raw" was then dispatched with
\* an array: the listener of "parsed" registered the second time was called.
C31_Witness ==
  /\ lastCall.op = "dispatchEvent"
  /\ lastCall.event = "raw"
  /\ isArray(mapPayload(lastCall.payload))
  /\ baseListenerCalls[<<"raw", "parsed">>] = 2
  /\ Len(listeners["parsed"]) = 1
  /\ Cardinality(CallsOf(lastCall.log, "parsed", listeners["parsed"][1].id)) = 1

----------------------------------------------------------------------------
(* onUiLoaded: what the claims are about *)

\* C32: each callback passed to onUiLoaded is called exactly once, however many
\* callbacks were passed before the UI was loaded, and also when it is passed after
\* the UI was loaded: no callback is ever called twice, and once nothing is pending
\* any more every callback that was passed has been called once.
C32_EachCallbackIsCalledOnce ==
  /\ \A n \in 1..uiRegistered : uiCalls[n] <= 1
  /\ (uiDomListeners = 0 /\ uiDetections = 0 /\ uiCssWaits = 0 /\ uiTimers = {}) =>
       \A n \in 1..uiRegistered : uiCalls[n] = 1

----------------------------------------------------------------------------
(* onDuoStateChanged: what the claims are about *)

\* C33: the callbacks registered through onDuoStateChanged are called only for the
\* storage changes whose key is 'duo.state', and with { oldState, newState }, the
\* payload the mapping function builds; a change of any other key calls none of them.
C33_OnlyDuoStateChangesAreNotified ==
  lastCall.op = "storageItemChanged" =>
    \A k \in CallsOfEvent(lastCall.log, "duoState") :
      /\ lastCall.payload = StorageItemChange("duo.state")
      /\ lastCall.log[k].payload = DuoStates

----------------------------------------------------------------------------
(* The sound detection listeners: what the claims are about *)

\* C34: after any sequence of registrations through onSoundInitialized and
\* onSoundPlaybackRequested / Cancelled / Confirmed and of calls of the functions they
\* returned, exactly one set of detection listeners is installed while a listener of
\* one of the four events remains, and once the last one is unregistered no set is
\* installed and the stored version and callbacks are cleared.
C34_DetectionInstalledWhileNeeded ==
  IF \E event \in SoundEvents : hasEventListeners(Registry, event)
  THEN Cardinality(soundDetection.installed) = 1
  ELSE /\ soundDetection.installed = {}
       /\ soundDetection.version = 0
       /\ soundDetection.callbacks = NoSet

----------------------------------------------------------------------------
(* The overrides: what the claims are about *)

\* The highest of the versions of a sequence of calls.
HighestVersion(calls) ==
  CHOOSE v \in {calls[i] : i \in 1..Len(calls)} : \A i \in 1..Len(calls) : calls[i] <= v

\* The first of the calls that passed the highest version.
FirstHighest(calls) ==
  CHOOSE n \in 1..Len(calls) :
    /\ calls[n] = HighestVersion(calls)
    /\ \A i \in 1..(n - 1) : calls[i] < calls[n]

C36_DescriptorOverrideIsAppliedOnce ==
  [][(/\ descriptorCalls' # descriptorCalls
      /\ descriptorCalls # <<>>
      /\ descriptorCalls'[Len(descriptorCalls')] <= HighestVersion(descriptorCalls)) =>
       hostProperty'.descriptor = hostProperty.descriptor
    ]_allVars

----------------------------------------------------------------------------
(* setSoundSettingValue: what the claims are about *)

\* C37: a forced setting is replaced only by a call with a high enough priority.
\* setSoundSettingValue with a priority lower than the one stored on the sound leaves
\* the stored value, priority and relative flag as they are; with a priority greater
\* than or equal to it, the stored value becomes the given value clamped into
\* [minValue, maxValue] and the stored priority becomes the given priority.
C37_ForcedSettingNeedsPriority ==
  [][lastSetting'.op = "setSoundSettingValue" =>
       IF lastSetting'.priority < StoredPriority(sound)
       THEN /\ sound'.value = sound.value
            /\ sound'.priority = sound.priority
            /\ sound'.isRelative = sound.isRelative
       ELSE /\ sound'.value = Max(RateMinValue, Min(lastSetting'.value, RateMaxValue))
            /\ sound'.value \in RateMinValue..RateMaxValue
            /\ sound'.priority = lastSetting'.priority
    ]_allVars

\* A value above maxValue was stored clamped with the highest priority, and the last
\* call, with a lower priority and another value, left it in place.
C37_Witness ==
  /\ lastSetting.op = "setSoundSettingValue"
  /\ lastSetting.priority < sound.priority
  /\ lastSetting.value < RateMinValue
  /\ sound.value = RateMaxValue
  /\ sound.priority = MaxSettingPriority

----------------------------------------------------------------------------
(* onActionRequest: what the claims are about *)

\* The responses the listener sent by itself for a request.
ListenerResponses(request) ==
  {k \in 1..Len(request.responses) : request.responses[k].by = "listener"}

\* C38: every action request gets a response. When the callback has thrown, or its
\* promise was fulfilled or rejected, without a call of sendResult or sendError,
\* exactly one response was sent, a failure; and the listener never sends its failure
\* after a response of the callback.
C38_EveryActionRequestIsAnswered ==
  \A i \in 1..Len(actionRequests) :
    LET request == actionRequests[i]
    IN /\ request.phase = "done" =>
            /\ request.responses # <<>>
            /\ CallbackResponses(request) = {} =>
                 request.responses = <<[type |-> "failure", by |-> "listener"]>>
       /\ \A k \in ListenerResponses(request) :
            \A j \in CallbackResponses(request) : k < j

\* A callback called sendResult and its promise was then rejected: no failure was
\* sent; and the promise of another one was fulfilled without any response, and one
\* failure was sent.
C38_Witness ==
  \E i, j \in 1..Len(actionRequests) :
    /\ actionRequests[i].phase = "done"
    /\ actionRequests[i].settled = "rejected"
    /\ actionRequests[i].responses = <<[type |-> "success", by |-> "callback"]>>
    /\ actionRequests[j].phase = "done"
    /\ actionRequests[j].settled = "fulfilled"
    /\ actionRequests[j].responses = <<[type |-> "failure", by |-> "listener"]>>
====
